---- MODULE Spec2Model ----
(***************************************************************************)
(* Notification dispatch pipeline of PYTHON_DESIGN_PATTERN.                *)
(*                                                                         *)
(* Three variants of the pipeline are modelled side by side:               *)
(*   "builder"  builder_design_pattern.py  (Notification object, retry     *)
(*              loop, observers; chain = RetryHandler -> MetricsHandler)   *)
(*   "facade"   facade_design_pattern.py   (recipient/message strings,     *)
(*              chain = InputValidation -> Retry -> Metrics, observers)    *)
(*   "adapter"  adapter_design_pattern.py  (as facade, no observers,       *)
(*              validation only logs, transports return None)              *)
(*                                                                         *)
(* The earlier files (strategy_, factory_, singleton_ and                  *)
(* chain_of_responsibility_design_pattern.py), the Logger singleton and    *)
(* the facade's NotificationEventManager have specifications of their own. *)
(*                                                                         *)
(* Python values are modelled as strings: "True", "False", "None", and     *)
(* "unbound" for a local variable that was never assigned.  A recipient is *)
(* a sequence of characters.                                               *)
(***************************************************************************)
EXTENDS Integers, Sequences, FiniteSets

\* ---------------------------------------------------------------- bounds
MaxLen == 2          \* longest recipient string
MaxRetry == 3        \* largest retry_count handed to the pipeline
MaxObservers == 5    \* observers attached to one event manager
MaxBuilds == 2       \* requests built from one NotificationBuilder
MaxCreated == 3      \* strategies obtained from NotificationFactory
MaxLoggerCalls == 3  \* Logger() calls made in one run

\* ---------------------------------------------------------------- inputs
Variants == {"builder", "facade", "adapter"}
Types == {"email", "sms", "push", "fax"}
Chars == {"@", "7", "a"}
Digits == {"7"}
Recipients == UNION {[1..k -> Chars] : k \in 0..MaxLen}
Messages == {"", "Hi"}
Priorities == {"normal", "high"}
BuiltinObservers == {"Analytics", "Audit", "Billing"}
\* observers a client attaches: a well-behaved one, one whose update raises and
\* one whose update assigns to the object it is handed
UserObservers == {"Custom", "Failing", "Mutating"}
Observers == BuiltinObservers \cup UserObservers

VARIABLES
    pc,             \* position of the running call
    variant,        \* which file's pipeline the dispatch runs
    notification,   \* the request handed to send / send_notification
    strategy,       \* context["strategy"]: the strategy class the factory resolved
    failCalls,      \* provider calls (by index) on which the transport reports failure
    attempt,        \* RetryHandler: loop iterations completed
    success,        \* RetryHandler: the local `success`
    strategyCalls,  \* history: strategy.send invocations in this dispatch
    providerCalls,  \* history: provider.send invocations in this dispatch
    results,        \* history: value returned by each strategy.send
    chainResult,    \* value returned by chain.handle
    handlers,       \* history: handlers whose handle ran, in order
    observers,      \* NotificationEventManager._observers
    attached,       \* history: arguments of the attach calls, in call order
    notifyCalls,    \* history: notify invocations in this dispatch
    notifyIdx,      \* notify: position of the for loop in the observer list
    updates,        \* history: observers whose update was invoked by this notify
    event,          \* what notify hands to update
    raised,         \* exception that escaped to the caller ("none" if none)
    returned,       \* value returned to the caller of the entry point
    log,            \* logger output of this dispatch
    providerArgs,   \* history: (recipient, message) of each provider.send call
    handedOff,      \* history: the request as it was when handed to the entry point
    bfields,        \* NotificationBuilder: its six fields
    built,          \* the Notification objects build() returned, oldest first
    bresult,        \* what the last NotificationBuilder call returned or raised
    lastArgs,       \* history: the argument of the last call of each setter
    snapshots,      \* history: each built request's metadata as it was at build()
    heapSize,       \* objects constructed so far by NotificationFactory calls
    created,        \* the strategies NotificationFactory returned, oldest first
    fresult,        \* what the last NotificationFactory call returned or raised
    links,          \* the handlers' next_handler fields of a shared NotificationSystem
    cells,          \* where `success` lives: cell 0 the RetryHandler object, cell t call t's frame
    frames,         \* the contexts and locals of the calls running on the shared system
    einput,         \* earlier variants: the type, recipient and message the client passes
    esends,         \* earlier variants: what strategy.send of each file did on einput
    ecalls,         \* earlier variants: what send_notification of each file did on einput
    instances,      \* Logger._instance of each file's Logger class, 0 for None
    lheap,          \* the Logger objects created so far: object i is of file lheap[i]
    lframes,        \* the Logger() calls in progress, one frame per thread
    lreturned,      \* history: what each finished Logger() call returned
    registry,       \* facade NotificationEventManager._observer_list
    rop             \* the last call made on that manager and what it did

\* state of the dispatch pipeline and the event manager
dvars == <<pc, variant, notification, strategy, failCalls, attempt, success, strategyCalls,
           providerCalls, results, chainResult, handlers, observers, attached,
           notifyCalls, notifyIdx, updates, event, raised, returned, log,
           providerArgs, handedOff>>

\* state of a NotificationBuilder and of the requests it built
bvars == <<bfields, built, bresult, lastArgs, snapshots>>

\* state of the objects made by NotificationFactory
fvars == <<heapSize, created, fresult>>

\* state of a NotificationSystem that several callers use
svars == <<links, cells, frames>>

\* calls on the earlier files of the repository
evars == <<einput, esends, ecalls>>

\* state of the Logger singletons
lvars == <<instances, lheap, lframes, lreturned>>

\* state of a facade NotificationEventManager used on its own
gvars == <<registry, rop>>

xvars == <<evars, lvars, gvars>>

vars == <<dvars, bvars, fvars, svars, xvars>>

\* ------------------------------------------------------- Python helpers
Truthy(x) == x = "True"

Contains(s, c) == \E i \in 1..Len(s) : s[i] = c

\* str.isdigit: non-empty and every character a digit
IsDigit(s) == Len(s) > 0 /\ \A i \in 1..Len(s) : s[i] \in Digits

Entry(level, text, n) == [level |-> level, text |-> text, n |-> n]

IsPrefix(s, t) == Len(s) <= Len(t) /\ \A i \in 1..Len(s) : s[i] = t[i]

\* ------------------------------------------------- transports and adapters
\* The simulated transport APIs: log a success line and return.  The builder and
\* facade stubs `return True`; the adapter-variant stubs fall off the end (None).
Builder_TransportAPI == "True"
Facade_TransportAPI == "True"
Adapter_TransportAPI == "None"

TransportAPI(v) ==
    IF v = "builder" THEN Builder_TransportAPI
    ELSE IF v = "facade" THEN Facade_TransportAPI
    ELSE Adapter_TransportAPI

\* NotificationProvider.send(recipient, message): the adapter returns whatever the
\* wrapped transport call returns.  k is the index of this call within the
\* dispatch; a transport that reports failure on call k (k \in fc) yields False.
Provider_send(v, k, fc) == IF k \in fc THEN "False" ELSE TransportAPI(v)

\* --------------------------------------------------------------- strategies
\* Each strategy send yields the value returned, whether provider.send was
\* called (0/1) and what it logged before the provider call.
Outcome(result, called, logged) == [result |-> result, called |-> called, logged |-> logged]

Builder_EmailNotification_send(recipient, reply) ==
    IF ~Contains(recipient, "@")
    THEN Outcome("False", 0, <<Entry("error", "Invalid email recipient", 0)>>)
    ELSE Outcome(reply, 1, <<>>)

Builder_SMSNotification_send(recipient, reply) ==
    IF ~IsDigit(recipient)
    THEN Outcome("False", 0, <<Entry("error", "Invalid SMS recipient", 0)>>)
    ELSE Outcome(reply, 1, <<>>)

\* faulty variant: push recipients are checked like SMS recipients
Builder_PushNotification_send_checked(recipient, reply) ==
    IF ~IsDigit(recipient)
    THEN Outcome("False", 0, <<Entry("error", "Invalid push recipient", 0)>>)
    ELSE Outcome(reply, 1, <<>>)

Builder_PushNotification_send(recipient, reply) == Outcome(reply, 1, <<>>)

Facade_EmailNotification_send(recipient, reply) ==
    IF ~Contains(recipient, "@")
    THEN Outcome("False", 0, <<Entry("error", "invalid recipient for email notification", 0)>>)
    ELSE Outcome(reply, 1, <<>>)

Facade_SMSNotification_send(recipient, reply) ==
    IF ~IsDigit(recipient)
    THEN Outcome("False", 0, <<Entry("error", "invalid recipient for sms notification", 0)>>)
    ELSE Outcome(reply, 1, <<>>)

Facade_PushNotification_send(recipient, reply) == Outcome(reply, 1, <<>>)

\* adapter variant: the validation only logs, the provider is called regardless
Adapter_EmailNotification_send(recipient, reply) ==
    Outcome(reply, 1,
            IF ~Contains(recipient, "@")
            THEN <<Entry("error", "invalid recipient for email notification", 0)>>
            ELSE <<>>)

Adapter_SMSNotification_send(recipient, reply) ==
    Outcome(reply, 1,
            IF ~IsDigit(recipient)
            THEN <<Entry("error", "invalid recipient for sms notification", 0)>>
            ELSE <<>>)

Adapter_PushNotification_send(recipient, reply) == Outcome(reply, 1, <<>>)

\* ------------------------------------------------------------------ factory
SupportedTypes == {"email", "sms", "push"}

\* NotificationFactory.create / create_notification: the strategy class for a
\* type, or "ValueError" when the type is not one of the three.
\* faulty variant: an unknown type falls back to push
Builder_NotificationFactory_create_fallback(t) ==
    IF t = "email" THEN "EmailNotification"
    ELSE IF t = "sms" THEN "SMSNotification"
    ELSE "PushNotification"

Builder_NotificationFactory_create(t) ==
    IF t = "email" THEN "EmailNotification"
    ELSE IF t = "sms" THEN "SMSNotification"
    ELSE IF t = "push" THEN "PushNotification"
    ELSE "ValueError"

Facade_NotificationFactory_create(t) ==
    IF t = "email" THEN "EmailNotification"
    ELSE IF t = "sms" THEN "SMSNotification"
    ELSE IF t = "push" THEN "PushNotification"
    ELSE "ValueError"

Adapter_NotificationFactory_create(t) ==
    IF t = "email" THEN "EmailNotification"
    ELSE IF t = "sms" THEN "SMSNotification"
    ELSE IF t = "push" THEN "PushNotification"
    ELSE "ValueError"

NotificationFactory_create(v, t) ==
    IF v = "builder" THEN Builder_NotificationFactory_create(t)
    ELSE IF v = "facade" THEN Facade_NotificationFactory_create(t)
    ELSE Adapter_NotificationFactory_create(t)

\* strategy.send of the strategy the factory resolved for this dispatch
Strategy_send(v, cls, recipient, reply) ==
    IF v = "builder" THEN
        IF cls = "EmailNotification" THEN Builder_EmailNotification_send(recipient, reply)
        ELSE IF cls = "SMSNotification" THEN Builder_SMSNotification_send(recipient, reply)
        ELSE Builder_PushNotification_send(recipient, reply)
    ELSE IF v = "facade" THEN
        IF cls = "EmailNotification" THEN Facade_EmailNotification_send(recipient, reply)
        ELSE IF cls = "SMSNotification" THEN Facade_SMSNotification_send(recipient, reply)
        ELSE Facade_PushNotification_send(recipient, reply)
    ELSE
        IF cls = "EmailNotification" THEN Adapter_EmailNotification_send(recipient, reply)
        ELSE IF cls = "SMSNotification" THEN Adapter_SMSNotification_send(recipient, reply)
        ELSE Adapter_PushNotification_send(recipient, reply)

\* the arguments the strategy passes to provider.send
Strategy_args(v, cls, n) == <<n.recipient, n.message>>

\* the transport's own success line, written only when the handoff completed
TransportLog(out) ==
    IF out.called = 1 /\ out.result # "False"
    THEN <<Entry("success", "transport", 0)>> ELSE <<>>

\* -------------------------------------------------------------------- chain
\* _build_chain: the handlers in next_handler order
Builder_build_chain == <<"RetryHandler", "MetricsHandler">>
Facade_build_chain == <<"InputValidationHandler", "RetryHandler", "MetricsHandler">>
Adapter_build_chain == <<"InputValidationHandler", "RetryHandler", "MetricsHandler">>

\* faulty variant: the metrics handler is linked in front of the retry handler
Chain_metrics_first(v) ==
    IF v = "builder" THEN <<"MetricsHandler", "RetryHandler">>
    ELSE <<"InputValidationHandler", "MetricsHandler", "RetryHandler">>

Chain(v) ==
    IF v = "builder" THEN Builder_build_chain
    ELSE IF v = "facade" THEN Facade_build_chain
    ELSE Adapter_build_chain

\* handler.next_handler, "None" for the last handler of the chain
next_handler(v, h) ==
    LET c == Chain(v)
        i == CHOOSE j \in 1..Len(c) : c[j] = h
    IN IF i < Len(c) THEN c[i + 1] ELSE "None"

\* InputValidationHandler.handle: `not recipient or not message`
InputValidationHandler_rejects(recipient, message) == recipient = <<>> \/ message = ""

\* faulty variant: the loop runs over range(attempts - 1)
Builder_RetryHandler_loop_short(done, attempts) == done < attempts - 1

\* RetryHandler.handle (builder): `for attempt in range(attempts)` has a next value
Builder_RetryHandler_loop(done, attempts) == done < attempts

\* faulty variant: the loop has no break
Builder_RetryHandler_nobreak(s) == FALSE

\* RetryHandler.handle (builder): `if success: ... break`
Builder_RetryHandler_break(s) == Truthy(s)

\* faulty variant: a falsy attempt is not reported
Builder_RetryHandler_warning_silent(done) == <<>>

\* RetryHandler.handle (builder): `logger.warning(f"Retry attempt {attempt + 1}")`
\* after an attempt whose result is falsy
Builder_RetryHandler_warning(done) == <<Entry("warning", "Retry attempt", done + 1)>>

\* faulty variant: `if not success: return False` is missing
Builder_RetryHandler_after_unchecked(s) ==
    IF s = "unbound" THEN "UnboundLocalError" ELSE "forward"

\* RetryHandler.handle (builder) after the loop: reading an unassigned `success`
\* raises; a falsy one returns False; otherwise the next handler decides.
Builder_RetryHandler_after(s) ==
    IF s = "unbound" THEN "UnboundLocalError"
    ELSE IF ~Truthy(s) THEN "False"
    ELSE "forward"

\* faulty variant: the result of the send is not looked at
Facade_RetryHandler_after_unchecked(s) == "forward"

\* RetryHandler.handle (facade, adapter): `if not success: return False`
Facade_RetryHandler_after(s) == IF ~Truthy(s) THEN "False" ELSE "forward"

\* faulty variant: the metrics stage reports failure
MetricsHandler_handle_false == "False"

\* MetricsHandler.handle: logs and returns True
MetricsHandler_handle == "True"

\* ----------------------------------------------------------------- observers
\* NotificationEventManager.attach
Attach(list, o) == Append(list, o)

\* faulty variant: notify walks the list backwards
NotifyOrder_reversed(list) == [i \in 1..Len(list) |-> list[Len(list) + 1 - i]]

\* NotificationEventManager.notify: the order in which the for loop visits
NotifyOrder(list) == list

\* faulty variant: every observer's update raises
Observer_update_raising(o) == "raise"

\* observer.update(event): the built-in observers print one line; "Failing"
\* stands for an observer whose update raises
Observer_update(o) == IF o = "Failing" THEN "raise" ELSE "ok"

\* faulty variant: every observer resets the priority of the object it is handed
Observer_writes_priority(o, n) == [n EXCEPT !.priority = "normal"]

\* observer.update(x): what the observer leaves in the object it was handed.
\* The built-in observers only read it; "Mutating" stands for a client's
\* observer that assigns to it (x.priority = "low" / x["priority"] = "low").
Observer_writes(o, n) == IF o = "Mutating" THEN [n EXCEPT !.priority = "low"] ELSE n

\* NotificationSystem.__init__: the three attach calls
NotificationSystem_init_observers ==
    Attach(Attach(Attach(<<>>, "Analytics"), "Audit"), "Billing")

\* faulty variant: notify is called whatever the chain returned
Send_notifies_always(v, r) == v # "adapter"

\* NotificationSystem.send / send_notification: `if self.chain.handle(context):`
Send_notifies(v, r) == v # "adapter" /\ Truthy(r)

\* faulty variant: the event never carries the request's priority
EventOf_nopriority(v, n) ==
    [notification_type |-> n.notification_type, recipient |-> n.recipient,
     message |-> n.message, priority |-> "absent", shared |-> v = "builder"]

\* what notify hands to the observers: the builder variant passes the request
\* object itself, the facade variant a new dict of three of its fields
EventOf(v, n) ==
    IF v = "builder"
    THEN [notification_type |-> n.notification_type, recipient |-> n.recipient,
          message |-> n.message, priority |-> n.priority, shared |-> TRUE]
    ELSE [notification_type |-> n.notification_type, recipient |-> n.recipient,
          message |-> n.message, priority |-> "absent", shared |-> FALSE]

NoEvent ==
    [notification_type |-> "none", recipient |-> <<>>, message |-> "",
     priority |-> "absent", shared |-> FALSE]

\* ------------------------------------------------------------------ requests
\* The builder variant's Notification carries priority and retry_count; the
\* other variants take (notification_type, recipient, message) and make one
\* send, recorded here as retry_count 1.
Notifications(v) ==
    [notification_type : Types, recipient : Recipients, message : Messages,
     priority : Priorities,
     retry_count : IF v = "builder" THEN 0..MaxRetry ELSE {1}]

NoNotification ==
    [notification_type |-> "none", recipient |-> <<>>, message |-> "",
     priority |-> "normal", retry_count |-> 0]


\* ------------------------------------------------------ NotificationBuilder
\* A builder field holds None or a value: <<>> stands for None, <<x>> for x.
\* A metadata dict is a set of <<key, value>> pairs with distinct keys.
NoneValue == <<>>
Some(x) == <<x>>

\* arguments the setters are called with
TypeArgs == {"", "email"}
RecipientArgs == {<<>>, <<"a", "@">>}
MessageArgs == {"", "Hi"}
PriorityArgs == {"high"}
RetryArgs == {-1, 3}
MetadataKeys == {"campaign"}
MetadataValues == {"Diwali Sale", "Holi Sale"}

\* NotificationBuilder.__init__
NotificationBuilder_init ==
    [notification_type |-> NoneValue, recipient |-> NoneValue, message |-> NoneValue,
     priority |-> Some("normal"), retry_count |-> Some(1), metadata |-> {}]

NotificationBuilder_set_type(b, x) == [b EXCEPT !.notification_type = Some(x)]
NotificationBuilder_set_recipient(b, x) == [b EXCEPT !.recipient = Some(x)]
\* a set_message that stores its argument in the type field
NotificationBuilder_set_message_wrong(b, x) == [b EXCEPT !.notification_type = Some(x)]

NotificationBuilder_set_message(b, x) == [b EXCEPT !.message = Some(x)]
NotificationBuilder_set_priority(b, x) == [b EXCEPT !.priority = Some(x)]
NotificationBuilder_set_retry(b, x) == [b EXCEPT !.retry_count = Some(x)]

\* dict[key] = value
DictSet(d, k, v) == {p \in d : p[1] # k} \cup {<<k, v>>}

\* add_metadata writes into the builder's one dict object
NotificationBuilder_add_metadata(b, k, v) == [b EXCEPT !.metadata = DictSet(b.metadata, k, v)]

\* Python `not x` for a str field and for a recipient
NotStr(f) == f = NoneValue \/ f[1] = ""
NotRecipient(f) == f = NoneValue \/ f[1] = <<>>

\* build: `if not self._notification_type or not self._recipient or not self._message`
\* a build that only checks that the three fields were set at all
NotificationBuilder_build_rejects_unset(b) ==
    \/ b.notification_type = NoneValue
    \/ b.recipient = NoneValue
    \/ b.message = NoneValue

NotificationBuilder_build_rejects(b) ==
    NotStr(b.notification_type) \/ NotRecipient(b.recipient) \/ NotStr(b.message)

\* Notification.__init__: `self.metadata = metadata or {}`: the dict passed in
\* when it is non-empty, a new empty dict otherwise
Notification_init_metadata(d) == IF d # {} THEN "builders_dict" ELSE "new_dict"

\* build: the Notification made from the builder's fields
NotificationBuilder_build(b) ==
    [notification_type |-> b.notification_type[1], recipient |-> b.recipient[1],
     message |-> b.message[1], priority |-> b.priority[1],
     retry_count |-> b.retry_count[1],
     metadata |-> Notification_init_metadata(b.metadata)]

\* the contents of a built request's metadata dict now
MetadataOf(r, b) == IF r.metadata = "builders_dict" THEN b.metadata ELSE {}

InitBuilderVars ==
    /\ bfields = NotificationBuilder_init
    /\ built = <<>>
    /\ bresult = "none"
    /\ lastArgs = [notification_type |-> NoneValue, recipient |-> NoneValue,
                   message |-> NoneValue, priority |-> NoneValue,
                   retry_count |-> NoneValue, metadata |-> {}]
    /\ snapshots = <<>>

\* ------------------------------------------------- NotificationFactory objects
\* a constructor call makes a new object: identity n + 1 when n objects exist
\* a constructor that hands out one shared module-level instance per class
Construct_shared(cls, n) == [cls |-> cls, id |-> 1]

Construct(cls, n) == [cls |-> cls, id |-> n + 1]

\* the adapter class each factory wires the strategy of a type with
Builder_NotificationFactory_provider(t) ==
    IF t = "email" THEN "SendGridAdapter"
    ELSE IF t = "sms" THEN "TwillioAdapter"
    ELSE "FireBaseAdapter"

Facade_NotificationFactory_provider(t) ==
    IF t = "email" THEN "SendGridAdapter"
    ELSE IF t = "sms" THEN "TwillioAdapter"
    ELSE "FireBaseAdapter"

Adapter_NotificationFactory_provider(t) ==
    IF t = "email" THEN "SendGridAdapter"
    ELSE IF t = "sms" THEN "TwillioAdapter"
    ELSE "FireBaseAdapter"

NotificationFactory_provider(v, t) ==
    IF v = "builder" THEN Builder_NotificationFactory_provider(t)
    ELSE IF v = "facade" THEN Facade_NotificationFactory_provider(t)
    ELSE Adapter_NotificationFactory_provider(t)

\* the transport API each adapter's __init__ constructs
Adapter_init_api(cls) ==
    IF cls = "SendGridAdapter" THEN "SendGridAPI"
    ELSE IF cls = "TwillioAdapter" THEN "TwillioAPI"
    ELSE "FireBaseAPI"

InitFactoryVars ==
    /\ heapSize = 0
    /\ created = <<>>
    /\ fresult = "none"

\* ------------------------------------------- one system, several callers
\* callers that use one NotificationSystem at the same time
Threads == {1, 2}

\* the requests they hand to send()
SharedTypes == {"email", "fax"}
SharedRecipients == {<<"a", "@">>, <<"a">>}
SharedRequests ==
    [notification_type : SharedTypes, recipient : SharedRecipients, message : {"Hi"},
     priority : {"normal"}, retry_count : 0..MaxRetry]

\* _build_chain (builder): Handler.__init__ sets next_handler = None and
\* retry.set_next(metrics) links the two handlers
Builder_build_chain_links ==
    [h \in {"RetryHandler", "MetricsHandler"} |-> next_handler("builder", h)]

\* faulty variant: a handler forgets its next handler once it has handled a call
Handler_handle_links_cleared(l, h) == [l EXCEPT ![h] = "None"]

\* what handle of handler h leaves in the next_handler fields: it only reads
\* self.next_handler
Handler_handle_links(l, h) == l

\* faulty variant: RetryHandler keeps `success` on itself (self.success)
SuccessOwner_shared(t) == 0

\* RetryHandler.handle: `success` is a local variable of the running call t
SuccessOwner(t) == t

\* a caller that is not inside send()
NoFrame ==
    [pc |-> "idle", notification |-> NoNotification, strategy |-> "None", fc |-> {},
     attempt |-> 0, pcalls |-> 0, results |-> <<>>, chainResult |-> "none",
     handlers |-> <<>>, notified |-> 0, updates |-> <<>>, raised |-> "none",
     reused |-> FALSE]

InitSharedVars ==
    /\ links = Builder_build_chain_links
    /\ cells = [c \in {0} \cup Threads |-> "unbound"]
    /\ frames = [t \in Threads |-> NoFrame]

\* NotificationSystem.send(n) run on its own, from entry to return, against a
\* transport that fails on the provider calls in fc: the retry loop ...
RECURSIVE Alone_loop(_, _, _, _)
Alone_loop(n, cls, fc, st) ==
    IF ~Builder_RetryHandler_loop(st.attempt, n.retry_count)
    THEN st
    ELSE LET out == Strategy_send("builder", cls, n.recipient,
                                  Provider_send("builder", st.pcalls + 1, fc))
             brk == Builder_RetryHandler_break(out.result)
             st2 == [attempt |-> IF brk THEN st.attempt ELSE st.attempt + 1,
                     pcalls |-> st.pcalls + out.called,
                     success |-> out.result,
                     results |-> Append(st.results, out.result)]
         IN IF brk THEN st2 ELSE Alone_loop(n, cls, fc, st2)

\* ... and the whole call: what it returned or raised, the sends it made, the
\* handlers it ran and whether it notified the observers
NotificationSystem_send_alone(n, fc) ==
    LET cls == Builder_NotificationFactory_create(n.notification_type)
        st == Alone_loop(n, cls, fc, [attempt |-> 0, pcalls |-> 0,
                                      success |-> "unbound", results |-> <<>>])
        r == Builder_RetryHandler_after(st.success)
    IN IF cls = "ValueError"
       THEN [results |-> <<>>, pcalls |-> 0, handlers |-> <<>>, chainResult |-> "none",
             notified |-> 0, raised |-> "ValueError"]
       ELSE IF r = "UnboundLocalError"
       THEN [results |-> st.results, pcalls |-> st.pcalls, handlers |-> <<"RetryHandler">>,
             chainResult |-> "none", notified |-> 0, raised |-> "UnboundLocalError"]
       ELSE IF r = "False"
       THEN [results |-> st.results, pcalls |-> st.pcalls, handlers |-> <<"RetryHandler">>,
             chainResult |-> "False", notified |-> 0, raised |-> "none"]
       ELSE [results |-> st.results, pcalls |-> st.pcalls, handlers |-> Builder_build_chain,
             chainResult |-> MetricsHandler_handle,
             notified |-> IF Send_notifies("builder", MetricsHandler_handle) THEN 1 ELSE 0,
             raised |-> "none"]

\* --------------------------------------------------------- earlier variants
\* The files that precede the adapter variant have no provider adapters: a
\* strategy's send prints or logs its lines and falls off the end (None).
EarlyModules == {"strategy", "factory", "singleton", "chain"}
StrategyModules == EarlyModules \cup {"adapter"}

\* strategy_design_pattern.py
StrategyPattern_EmailNotification_send(recipient) ==
    Outcome("None", 0,
            (IF ~Contains(recipient, "@")
             THEN <<Entry("error", "invalid recipient for email notification", 0)>>
             ELSE <<>>)
            \o <<Entry("log", "using SEND GRID API", 0), Entry("sendgrid", "sent mail", 0)>>)

StrategyPattern_SMSNotification_send(recipient) ==
    Outcome("None", 0,
            (IF ~IsDigit(recipient)
             THEN <<Entry("error", "invalid recipient for sms notification", 0)>>
             ELSE <<>>)
            \o <<Entry("log", "using Twillio API", 0), Entry("twillio", "sent message", 0)>>)

StrategyPattern_PushNotification_send(recipient) ==
    Outcome("None", 0,
            <<Entry("log", "using Firebase API", 0), Entry("Firebase", "sent message", 0)>>)

\* factory_design_pattern.py
FactoryPattern_EmailNotification_send(recipient) ==
    Outcome("None", 0,
            (IF ~Contains(recipient, "@")
             THEN <<Entry("error", "invalid recipient for email notification", 0)>>
             ELSE <<>>)
            \o <<Entry("log", "using SEND GRID API", 0), Entry("sendgrid", "sent mail", 0)>>)

FactoryPattern_SMSNotification_send(recipient) ==
    Outcome("None", 0,
            (IF ~IsDigit(recipient)
             THEN <<Entry("error", "invalid recipient for sms notification", 0)>>
             ELSE <<>>)
            \o <<Entry("log", "using Twillio API", 0), Entry("twillio", "sent message", 0)>>)

FactoryPattern_PushNotification_send(recipient) ==
    Outcome("None", 0,
            <<Entry("log", "using Firebase API", 0), Entry("Firebase", "sent message", 0)>>)

\* faulty variant: an invalid email recipient ends send after the error line
Singleton_EmailNotification_send_aborting(recipient) ==
    IF ~Contains(recipient, "@")
    THEN Outcome("False", 0, <<Entry("error", "invalid recipient for email notification", 0)>>)
    ELSE Outcome("None", 0,
                 <<Entry("log", "using SEND GRID API", 0), Entry("success", "sent mail", 0)>>)

\* singleton_design_pattern.py
Singleton_EmailNotification_send(recipient) ==
    Outcome("None", 0,
            (IF ~Contains(recipient, "@")
             THEN <<Entry("error", "invalid recipient for email notification", 0)>>
             ELSE <<>>)
            \o <<Entry("log", "using SEND GRID API", 0), Entry("success", "sent mail", 0)>>)

Singleton_SMSNotification_send(recipient) ==
    Outcome("None", 0,
            (IF ~IsDigit(recipient)
             THEN <<Entry("error", "invalid recipient for sms notification", 0)>>
             ELSE <<>>)
            \o <<Entry("log", "using Twillio API", 0), Entry("success", "sent message", 0)>>)

Singleton_PushNotification_send(recipient) ==
    Outcome("None", 0,
            <<Entry("log", "using Firebase API", 0), Entry("success", "sent message", 0)>>)

\* chain_of_responsibility_design_pattern.py
CoR_EmailNotification_send(recipient) ==
    Outcome("None", 0,
            (IF ~Contains(recipient, "@")
             THEN <<Entry("error", "invalid recipient for email notification", 0)>>
             ELSE <<>>)
            \o <<Entry("log", "using SEND GRID API", 0), Entry("success", "sent mail", 0)>>)

CoR_SMSNotification_send(recipient) ==
    Outcome("None", 0,
            (IF ~IsDigit(recipient)
             THEN <<Entry("error", "invalid recipient for sms notification", 0)>>
             ELSE <<>>)
            \o <<Entry("log", "using Twillio API", 0), Entry("success", "sent message", 0)>>)

CoR_PushNotification_send(recipient) ==
    Outcome("None", 0,
            <<Entry("log", "using Firebase API", 0), Entry("success", "sent message", 0)>>)

\* the strategy classes of a file, by the name of the class
StrategyClasses == {"EmailNotification", "SMSNotification", "PushNotification"}

\* strategy.send(recipient, message) of class cls of file f; reply is what the
\* adapter variant's provider returns
File_Strategy_send(f, cls, recipient, reply) ==
    IF f = "strategy" THEN
        IF cls = "EmailNotification" THEN StrategyPattern_EmailNotification_send(recipient)
        ELSE IF cls = "SMSNotification" THEN StrategyPattern_SMSNotification_send(recipient)
        ELSE StrategyPattern_PushNotification_send(recipient)
    ELSE IF f = "factory" THEN
        IF cls = "EmailNotification" THEN FactoryPattern_EmailNotification_send(recipient)
        ELSE IF cls = "SMSNotification" THEN FactoryPattern_SMSNotification_send(recipient)
        ELSE FactoryPattern_PushNotification_send(recipient)
    ELSE IF f = "singleton" THEN
        IF cls = "EmailNotification" THEN Singleton_EmailNotification_send(recipient)
        ELSE IF cls = "SMSNotification" THEN Singleton_SMSNotification_send(recipient)
        ELSE Singleton_PushNotification_send(recipient)
    ELSE IF f = "chain" THEN
        IF cls = "EmailNotification" THEN CoR_EmailNotification_send(recipient)
        ELSE IF cls = "SMSNotification" THEN CoR_SMSNotification_send(recipient)
        ELSE CoR_PushNotification_send(recipient)
    ELSE Strategy_send("adapter", cls, recipient, reply)

\* NotificationFactory.create_notification of the two files
Singleton_NotificationFactory_create(t) ==
    IF t = "email" THEN "EmailNotification"
    ELSE IF t = "sms" THEN "SMSNotification"
    ELSE IF t = "push" THEN "PushNotification"
    ELSE "ValueError"

CoR_NotificationFactory_create(t) ==
    IF t = "email" THEN "EmailNotification"
    ELSE IF t = "sms" THEN "SMSNotification"
    ELSE IF t = "push" THEN "PushNotification"
    ELSE "ValueError"

\* What a send_notification call did: the value returned ("none" when it
\* raised), the exception that escaped, the number of strategy.send calls and
\* the lines logged.
CallResult(result, exc, sends, logged) ==
    [result |-> result, raised |-> exc, sends |-> sends, logged |-> logged]

NoCall == CallResult("none", "none", 0, <<>>)

NoOutcome == Outcome("none", 0, <<>>)

\* singleton_design_pattern.NotificationSystem.send_notification; coin is
\* random.choice([True, False])
Singleton_send_notification(t, recipient, message, coin) ==
    LET prep == <<Entry("log", "Preparing to send", 0)>>
        cls == Singleton_NotificationFactory_create(t)
    IN IF cls = "ValueError"
       THEN CallResult("none", "ValueError", 0, prep)
       ELSE IF recipient = <<>> \/ message = ""
       THEN CallResult("False", "none", 0, prep \o <<Entry("error", "Invalid Input", 0)>>)
       ELSE LET out == File_Strategy_send("singleton", cls, recipient, "None")
            IN IF ~Truthy(out.result)
               THEN CallResult("False", "none", 1, prep \o out.logged)
               ELSE CallResult("True", "none", 1,
                               prep \o out.logged
                               \o (IF coin
                                   THEN <<Entry("warning", "Temporary failure retrying", 0),
                                          Entry("success", "sent after retry", 0)>>
                                   ELSE <<Entry("success", "sent successfully", 0)>>)
                               \o <<Entry("success", "Notification Processed", 0)>>)

\* faulty variant: the validation handler lets every context through
CoR_InputValidationHandler_rejects_never(recipient, message) == FALSE

\* chain_of_responsibility InputValidationHandler.handle:
\* `not context['recipient'] or not context['message']`
CoR_InputValidationHandler_rejects(recipient, message) == recipient = <<>> \/ message = ""

\* chain_of_responsibility MetricsHandler.handle, the last handler of the chain
CoR_MetricsHandler_handle(call) ==
    [call EXCEPT !.result = "True",
                 !.logged = @ \o <<Entry("log", "Notification processed", 0)>>]

\* chain_of_responsibility RetryHandler.handle; its next handler is the
\* metrics handler (_build_chain)
CoR_RetryHandler_handle(call, cls, recipient, coin) ==
    LET out == File_Strategy_send("chain", cls, recipient, "None")
        sent == [call EXCEPT !.sends = @ + 1, !.logged = @ \o out.logged]
    IN IF ~Truthy(out.result)
       THEN [sent EXCEPT !.result = "False"]
       ELSE CoR_MetricsHandler_handle(
                [sent EXCEPT !.logged = @ \o <<IF coin
                                               THEN Entry("warning", "Temporary Failure", 0)
                                               ELSE Entry("success", "Sent Successfully!", 0)>>])

\* chain_of_responsibility InputValidationHandler.handle; its next handler is
\* the retry handler (_build_chain)
CoR_InputValidationHandler_handle(call, cls, recipient, message, coin) ==
    IF CoR_InputValidationHandler_rejects(recipient, message)
    THEN [call EXCEPT !.result = "False",
                      !.logged = @ \o <<Entry("error", "Invalid Input", 0)>>]
    ELSE CoR_RetryHandler_handle(call, cls, recipient, coin)

\* chain_of_responsibility_design_pattern.NotificationSystem.send_notification
CoR_send_notification(t, recipient, message, coin) ==
    LET prep == CallResult("none", "none", 0, <<Entry("log", "Preparing to send", 0)>>)
        cls == CoR_NotificationFactory_create(t)
    IN IF cls = "ValueError"
       THEN [prep EXCEPT !.raised = "ValueError"]
       ELSE CoR_InputValidationHandler_handle(prep, cls, recipient, message, coin)

\* what the client passes to send_notification / strategy.send
EarlyInputs == [notification_type : Types, recipient : Recipients, message : Messages]

NoInput == [notification_type |-> "none", recipient |-> <<>>, message |-> ""]

InitEarlyCalls ==
    /\ esends = [f \in StrategyModules |-> NoOutcome]
    /\ ecalls = [f \in {"singleton", "chain"} |-> NoCall]

\* ------------------------------------------------------------------- Logger
\* the files that define the Logger singleton
LoggerModules == {"singleton", "chain", "adapter", "facade", "builder"}

\* faulty variant: __new__ creates an instance on every call
Logger_instance_is_None_always(inst) == TRUE

\* Logger.__new__: `cls._instance is None`
Logger_instance_is_None(inst) == inst = 0

\* a thread that is not inside Logger()
NoLoggerFrame == [pc |-> "idle", module |-> "none"]

\* Logger() calls started so far, finished or not
LoggerCalls == Len(lreturned) + Cardinality({t \in Threads : lframes[t].pc # "idle"})

InitLoggerVars ==
    /\ instances = [f \in LoggerModules |-> 0]
    /\ lheap = <<>>
    /\ lframes = [t \in Threads |-> NoLoggerFrame]
    /\ lreturned = <<>>

\* --------------------------------------- facade NotificationEventManager
\* list.remove(x): the list without its first x; "ValueError" when x is absent
List_remove(list, x) ==
    IF ~Contains(list, x) THEN "ValueError"
    ELSE LET i == CHOOSE j \in 1..Len(list) :
                      list[j] = x /\ \A k \in 1..(j - 1) : list[k] # x
         IN SubSeq(list, 1, i - 1) \o SubSeq(list, i + 1, Len(list))

\* facade NotificationEventManager.remove: `self._observer_list.remove(observer)`
Facade_NotificationEventManager_remove(list, o) == List_remove(list, o)

\* facade NotificationEventManager.attach: `self._observer_list.append(observer)`
Facade_NotificationEventManager_attach(list, o) == Append(list, o)

\* facade NotificationEventManager.notify: the observers whose update was
\* called, in call order: the for loop ends at the first update that raises
Facade_NotificationEventManager_notify(list) ==
    LET raising == {i \in 1..Len(list) : Observer_update(list[i]) = "raise"}
    IN IF raising = {} THEN [updates |-> list, raised |-> "none"]
       ELSE LET k == CHOOSE i \in raising : \A j \in raising : i <= j
            IN [updates |-> SubSeq(list, 1, k), raised |-> "ObserverError"]

\* a call on the manager and what it did
RegistryOp(op, arg, exc, called) ==
    [op |-> op, arg |-> arg, raised |-> exc, updates |-> called]

InitRegistryVars ==
    /\ registry = <<>>
    /\ rop = RegistryOp("none", "none", "none", <<>>)

\* the variables of the other specifications, at rest
InitExtraVars ==
    /\ einput = NoInput
    /\ InitEarlyCalls
    /\ InitLoggerVars
    /\ InitRegistryVars

\* ---------------------------------------------------------------------- Init
InitCall ==
    /\ variant = "builder"
    /\ notification = NoNotification
    /\ strategy = "None"
    /\ failCalls = {}
    /\ attempt = 0
    /\ success = "unbound"
    /\ strategyCalls = 0
    /\ providerCalls = 0
    /\ results = <<>>
    /\ chainResult = "none"
    /\ handlers = <<>>
    /\ notifyCalls = 0
    /\ notifyIdx = 0
    /\ updates = <<>>
    /\ event = NoEvent
    /\ raised = "none"
    /\ returned = "none"
    /\ log = <<>>
    /\ providerArgs = <<>>
    /\ handedOff = NoNotification

\* a constructed NotificationSystem, no dispatch made yet
Init ==
    /\ pc = "idle"
    /\ observers = NotificationSystem_init_observers
    /\ attached = <<"Analytics", "Audit", "Billing">>
    /\ InitCall
    /\ InitBuilderVars
    /\ InitFactoryVars
    /\ InitSharedVars
    /\ InitExtraVars

\* a constructed NotificationEventManager on its own
InitNotify ==
    /\ pc = "manager"
    /\ observers = <<>>
    /\ attached = <<>>
    /\ InitCall
    /\ InitBuilderVars
    /\ InitFactoryVars
    /\ InitSharedVars
    /\ InitExtraVars

\* a constructed NotificationBuilder, nothing set
InitBuilder ==
    /\ pc = "builder"
    /\ observers = <<>>
    /\ attached = <<>>
    /\ InitCall
    /\ InitBuilderVars
    /\ InitFactoryVars
    /\ InitSharedVars
    /\ InitExtraVars

\* the NotificationFactory class, no strategy created yet
InitFactory ==
    /\ pc = "factory"
    /\ observers = <<>>
    /\ attached = <<>>
    /\ InitCall
    /\ InitBuilderVars
    /\ InitFactoryVars
    /\ InitSharedVars
    /\ InitExtraVars

\* a constructed NotificationSystem that several callers are about to use
InitShared ==
    /\ pc = "shared"
    /\ observers = NotificationSystem_init_observers
    /\ attached = <<"Analytics", "Audit", "Billing">>
    /\ InitCall
    /\ InitBuilderVars
    /\ InitFactoryVars
    /\ InitSharedVars
    /\ InitExtraVars

\* ------------------------------------------------------------------- actions
\* handle of handler h passes the context on: to next_handler when there is
\* one, else it returns True
Forward(h) ==
    LET nxt == next_handler(variant, h)
    IN IF nxt # "None"
       THEN /\ pc' = nxt
            /\ handlers' = Append(handlers, nxt)
            /\ chainResult' = chainResult
       ELSE /\ pc' = "after_chain"
            /\ chainResult' = "True"
            /\ handlers' = handlers

\* NotificationSystem.send(notification) / send_notification(type, recipient,
\* message) up to the call of chain.handle: log, resolve the strategy (or let
\* the factory's ValueError escape), build the context.
Send(v, n, fc) ==
    /\ pc = "idle"
    /\ LET cls == NotificationFactory_create(v, n.notification_type)
       IN /\ variant' = v
          /\ notification' = n
          /\ failCalls' = fc
          /\ attempt' = 0
          /\ success' = "unbound"
          /\ strategyCalls' = 0
          /\ providerCalls' = 0
          /\ results' = <<>>
          /\ chainResult' = "none"
          /\ notifyCalls' = 0
          /\ notifyIdx' = 0
          /\ updates' = <<>>
          /\ event' = NoEvent
          /\ returned' = "none"
          /\ log' = <<Entry("log", "Preparing to send", 0)>>
          /\ providerArgs' = <<>>
          /\ handedOff' = n
          /\ IF cls = "ValueError"
             THEN /\ strategy' = "None"
                  /\ raised' = "ValueError"
                  /\ handlers' = <<>>
                  /\ pc' = "done"
             ELSE /\ strategy' = cls
                  /\ raised' = "none"
                  /\ handlers' = <<Head(Chain(v))>>
                  /\ pc' = Head(Chain(v))
    /\ UNCHANGED <<observers, attached, bvars, fvars, svars, xvars>>

\* InputValidationHandler.handle (facade, adapter)
InputValidationHandler_handle ==
    /\ pc = "InputValidationHandler"
    /\ IF InputValidationHandler_rejects(notification.recipient, notification.message)
       THEN /\ log' = Append(log, Entry("error", "Invalid Input", 0))
            /\ chainResult' = "False"
            /\ pc' = "after_chain"
            /\ handlers' = handlers
       ELSE /\ log' = log
            /\ Forward("InputValidationHandler")
    /\ UNCHANGED <<variant, notification, strategy, failCalls, attempt, success,
                   strategyCalls, providerCalls, results, observers, attached,
                   notifyCalls, notifyIdx, updates, event, raised, returned>>
    /\ UNCHANGED <<providerArgs, handedOff, bvars, fvars, svars, xvars>>

\* RetryHandler.handle (builder): one iteration of the for loop
Builder_RetryHandler_attempt ==
    /\ pc = "RetryHandler"
    /\ variant = "builder"
    /\ Builder_RetryHandler_loop(attempt, notification.retry_count)
    /\ LET reply == Provider_send(variant, providerCalls + 1, failCalls)
           out == Strategy_send(variant, strategy, notification.recipient, reply)
       IN /\ success' = out.result
          /\ strategyCalls' = strategyCalls + 1
          /\ providerCalls' = providerCalls + out.called
          /\ providerArgs' = IF out.called = 1
                             THEN Append(providerArgs, Strategy_args(variant, strategy, notification))
                             ELSE providerArgs
          /\ results' = Append(results, out.result)
          /\ IF Builder_RetryHandler_break(out.result)
             THEN /\ log' = log \o out.logged \o TransportLog(out)
                               \o <<Entry("success", "Sent successfully", 0)>>
                  /\ attempt' = attempt
                  /\ pc' = "RetryHandler_exit"
             ELSE /\ log' = log \o out.logged \o TransportLog(out)
                               \o Builder_RetryHandler_warning(attempt)
                  /\ attempt' = attempt + 1
                  /\ pc' = pc
    /\ UNCHANGED <<variant, notification, strategy, failCalls, chainResult, handlers,
                   observers, attached, notifyCalls, notifyIdx, updates, event,
                   raised, returned, handedOff, bvars, fvars, svars, xvars>>

\* RetryHandler.handle (builder): the code after the for loop
Builder_RetryHandler_exit ==
    /\ variant = "builder"
    /\ \/ pc = "RetryHandler_exit"
       \/ /\ pc = "RetryHandler"
          /\ ~Builder_RetryHandler_loop(attempt, notification.retry_count)
    /\ LET r == Builder_RetryHandler_after(success)
       IN IF r = "UnboundLocalError"
          THEN /\ raised' = "UnboundLocalError"
               /\ pc' = "done"
               /\ UNCHANGED <<chainResult, handlers>>
          ELSE IF r = "False"
          THEN /\ chainResult' = "False"
               /\ pc' = "after_chain"
               /\ UNCHANGED <<raised, handlers>>
          ELSE /\ Forward("RetryHandler")
               /\ raised' = raised
    /\ UNCHANGED <<variant, notification, strategy, failCalls, attempt, success,
                   strategyCalls, providerCalls, results, observers, attached,
                   notifyCalls, notifyIdx, updates, event, returned, log>>
    /\ UNCHANGED <<providerArgs, handedOff, bvars, fvars, svars, xvars>>

\* RetryHandler.handle (facade, adapter): one send, then a random log line
Facade_RetryHandler_handle ==
    /\ pc = "RetryHandler"
    /\ variant # "builder"
    /\ LET reply == Provider_send(variant, providerCalls + 1, failCalls)
           out == Strategy_send(variant, strategy, notification.recipient, reply)
       IN /\ success' = out.result
          /\ strategyCalls' = strategyCalls + 1
          /\ providerCalls' = providerCalls + out.called
          /\ providerArgs' = IF out.called = 1
                             THEN Append(providerArgs, Strategy_args(variant, strategy, notification))
                             ELSE providerArgs
          /\ results' = Append(results, out.result)
          /\ IF Facade_RetryHandler_after(out.result) = "False"
             THEN /\ log' = log \o out.logged \o TransportLog(out)
                  /\ chainResult' = "False"
                  /\ pc' = "after_chain"
                  /\ handlers' = handlers
             ELSE /\ \E coin \in BOOLEAN :
                        log' = log \o out.logged \o TransportLog(out) \o
                               <<IF coin THEN Entry("warning", "Temporary Failure", 0)
                                         ELSE Entry("success", "Sent Successfully!", 0)>>
                  /\ Forward("RetryHandler")
    /\ UNCHANGED <<variant, notification, strategy, failCalls, attempt, observers,
                   attached, notifyCalls, notifyIdx, updates, event, raised, returned,
                   handedOff, bvars, fvars, svars, xvars>>

\* MetricsHandler.handle
MetricsHandler_step ==
    /\ pc = "MetricsHandler"
    /\ log' = Append(log, Entry("log", "Notification processed", 0))
    /\ chainResult' = MetricsHandler_handle
    /\ pc' = "after_chain"
    /\ UNCHANGED <<variant, notification, strategy, failCalls, attempt, success,
                   strategyCalls, providerCalls, results, handlers, observers,
                   attached, notifyCalls, notifyIdx, updates, event, raised, returned>>
    /\ UNCHANGED <<providerArgs, handedOff, bvars, fvars, svars, xvars>>

\* the entry point after chain.handle returned: builder and facade call notify
\* when the result is truthy and return None; the adapter variant returns the
\* chain's result
Send_after_chain ==
    /\ pc = "after_chain"
    /\ IF Send_notifies(variant, chainResult)
       THEN /\ notifyCalls' = notifyCalls + 1
            /\ event' = EventOf(variant, notification)
            /\ notifyIdx' = 1
            /\ pc' = "notify"
            /\ returned' = returned
       ELSE /\ returned' = IF variant = "adapter" THEN chainResult ELSE "None"
            /\ pc' = "done"
            /\ UNCHANGED <<notifyCalls, event, notifyIdx>>
    /\ UNCHANGED <<variant, notification, strategy, failCalls, attempt, success,
                   strategyCalls, providerCalls, results, chainResult, handlers,
                   observers, attached, updates, raised, log>>
    /\ UNCHANGED <<providerArgs, handedOff, bvars, fvars, svars, xvars>>

\* NotificationEventManager.notify: one iteration of the for loop.  An
\* exception raised by update leaves the loop, notify and the caller.
notify_update ==
    /\ pc = "notify"
    /\ notifyIdx <= Len(NotifyOrder(observers))
    /\ LET o == NotifyOrder(observers)[notifyIdx]
       IN /\ updates' = Append(updates, o)
          /\ event' = Observer_writes(o, event)
          /\ notification' = IF event.shared
                             THEN Observer_writes(o, notification)
                             ELSE notification
          /\ IF Observer_update(o) = "raise"
             THEN /\ raised' = "ObserverError"
                  /\ pc' = "done"
                  /\ notifyIdx' = notifyIdx
             ELSE /\ raised' = raised
                  /\ pc' = pc
                  /\ notifyIdx' = notifyIdx + 1
    /\ UNCHANGED <<providerArgs, handedOff, bvars, fvars, svars, xvars>>
    /\ UNCHANGED <<variant, strategy, failCalls, attempt, success,
                   strategyCalls, providerCalls, results, chainResult, handlers,
                   observers, attached, notifyCalls, returned, log>>

\* NotificationEventManager.notify: the for loop is exhausted, notify and the
\* entry point return None
notify_return ==
    /\ pc = "notify"
    /\ notifyIdx > Len(NotifyOrder(observers))
    /\ returned' = "None"
    /\ pc' = "done"
    /\ UNCHANGED <<variant, notification, strategy, failCalls, attempt, success,
                   strategyCalls, providerCalls, results, chainResult, handlers,
                   observers, attached, notifyCalls, notifyIdx, updates, event,
                   raised, log>>
    /\ UNCHANGED <<providerArgs, handedOff, bvars, fvars, svars, xvars>>

\* NotificationEventManager.attach(observer), between dispatches
attach(o) ==
    /\ pc \in {"idle", "manager"}
    /\ Len(observers) < MaxObservers
    /\ observers' = Attach(observers, o)
    /\ attached' = Append(attached, o)
    /\ UNCHANGED <<pc, variant, notification, strategy, failCalls, attempt, success,
                   strategyCalls, providerCalls, results, chainResult, handlers,
                   notifyCalls, notifyIdx, updates, event, raised, returned, log>>
    /\ UNCHANGED <<providerArgs, handedOff, bvars, fvars, svars, xvars>>

\* NotificationEventManager.notify(event) called on the manager directly
manager_notify(n) ==
    /\ pc = "manager"
    /\ notifyCalls' = 1
    /\ notification' = n
    /\ event' = EventOf("builder", n)
    /\ notifyIdx' = 1
    /\ updates' = <<>>
    /\ raised' = "none"
    /\ returned' = "none"
    /\ pc' = "notify"
    /\ UNCHANGED <<variant, strategy, failCalls, attempt, success,
                   strategyCalls, providerCalls, results, chainResult, handlers,
                   observers, attached, log>>
    /\ UNCHANGED <<providerArgs, handedOff, bvars, fvars, svars, xvars>>

\* the client's next statement after a call that returned: the system (or the
\* manager) is ready for the next call; the finished call's history is dropped
client_next ==
    /\ pc = "done"
    /\ raised = "none"
    /\ pc' = IF handlers = <<>> /\ strategy = "None" THEN "manager" ELSE "idle"
    /\ variant' = "builder"
    /\ notification' = NoNotification
    /\ strategy' = "None"
    /\ failCalls' = {}
    /\ attempt' = 0
    /\ success' = "unbound"
    /\ strategyCalls' = 0
    /\ providerCalls' = 0
    /\ results' = <<>>
    /\ chainResult' = "none"
    /\ handlers' = <<>>
    /\ notifyCalls' = 0
    /\ notifyIdx' = 0
    /\ updates' = <<>>
    /\ event' = NoEvent
    /\ returned' = "none"
    /\ log' = <<>>
    /\ providerArgs' = <<>>
    /\ handedOff' = NoNotification
    /\ UNCHANGED <<observers, attached, raised, bvars, fvars, svars, xvars>>

\* ------------------------------------------------------------ builder calls
\* a fluent setter call: the field is written, the builder itself is returned
BuilderSetter(newFields, setter, arg) ==
    /\ bfields' = newFields
    /\ lastArgs' = [lastArgs EXCEPT ![setter] = Some(arg)]
    /\ bresult' = "self"
    /\ UNCHANGED <<built, snapshots, dvars, fvars, svars, xvars>>

set_type(x) == BuilderSetter(NotificationBuilder_set_type(bfields, x), "notification_type", x)
set_recipient(x) == BuilderSetter(NotificationBuilder_set_recipient(bfields, x), "recipient", x)
set_message(x) == BuilderSetter(NotificationBuilder_set_message(bfields, x), "message", x)
set_priority(x) == BuilderSetter(NotificationBuilder_set_priority(bfields, x), "priority", x)
set_retry(x) == BuilderSetter(NotificationBuilder_set_retry(bfields, x), "retry_count", x)

add_metadata(k, v) ==
    /\ bfields' = NotificationBuilder_add_metadata(bfields, k, v)
    /\ lastArgs' = [lastArgs EXCEPT
                      !.metadata = {q \in lastArgs.metadata : q[1] # k} \cup {<<k, v>>}]
    /\ bresult' = "self"
    /\ UNCHANGED <<built, snapshots, dvars, fvars, svars, xvars>>

\* build(): raises ValueError, or returns a new Notification
build ==
    IF NotificationBuilder_build_rejects(bfields)
    THEN /\ bresult' = "ValueError"
         /\ UNCHANGED <<bfields, built, snapshots, lastArgs, dvars, fvars, svars, xvars>>
    ELSE /\ Len(built) < MaxBuilds
         /\ LET r == NotificationBuilder_build(bfields)
            IN /\ built' = Append(built, r)
               /\ snapshots' = Append(snapshots, MetadataOf(r, bfields))
         /\ bresult' = "Notification"
         /\ UNCHANGED <<bfields, lastArgs, dvars, fvars, svars, xvars>>

\* ------------------------------------------------------------ factory calls
\* NotificationFactory.create(t) / create_notification(t) of variant v: raises
\* ValueError, or constructs an adapter (which constructs its API) and the
\* strategy holding it
Factory_create(v, t) ==
    /\ Len(created) < MaxCreated
    /\ IF NotificationFactory_create(v, t) = "ValueError"
       THEN /\ fresult' = "ValueError"
            /\ UNCHANGED <<heapSize, created>>
       ELSE LET pcls == NotificationFactory_provider(v, t)
                api == Construct(Adapter_init_api(pcls), heapSize)
                prov == Construct(pcls, heapSize + 1)
                strat == Construct(NotificationFactory_create(v, t), heapSize + 2)
            IN /\ created' = Append(created, [module |-> v, for_type |-> t, strategy |-> strat,
                                              provider |-> prov, api |-> api])
               /\ heapSize' = heapSize + 3
               /\ fresult' = "strategy"
    /\ UNCHANGED <<dvars, bvars, svars, xvars>>

\* ------------------------------------------- calls on a shared system
\* caller t enters NotificationSystem.send(n): a new context and new locals
Shared_send(t, n, fc) ==
    /\ frames[t].pc = "idle"
    /\ LET cls == Builder_NotificationFactory_create(n.notification_type)
       IN frames' = [frames EXCEPT ![t] =
              IF cls = "ValueError"
              THEN [NoFrame EXCEPT !.pc = "done", !.notification = n,
                                   !.raised = "ValueError", !.reused = frames[t].reused]
              ELSE [NoFrame EXCEPT !.pc = "RetryHandler", !.notification = n,
                                   !.strategy = cls, !.fc = fc,
                                   !.handlers = <<"RetryHandler">>,
                                   !.reused = frames[t].reused]]
    /\ cells' = [cells EXCEPT ![t] = "unbound"]
    /\ UNCHANGED <<links, dvars, bvars, fvars, xvars>>

\* RetryHandler.handle in call t: one iteration of the for loop
Shared_RetryHandler_attempt(t) ==
    LET f == frames[t]
    IN /\ f.pc = "RetryHandler"
       /\ Builder_RetryHandler_loop(f.attempt, f.notification.retry_count)
       /\ LET reply == Provider_send("builder", f.pcalls + 1, f.fc)
              out == Strategy_send("builder", f.strategy, f.notification.recipient, reply)
              brk == Builder_RetryHandler_break(out.result)
          IN /\ cells' = [cells EXCEPT ![SuccessOwner(t)] = out.result]
             /\ frames' = [frames EXCEPT ![t] =
                    [f EXCEPT !.pcalls = f.pcalls + out.called,
                              !.results = Append(f.results, out.result),
                              !.attempt = IF brk THEN f.attempt ELSE f.attempt + 1,
                              !.pc = IF brk THEN "RetryHandler_exit" ELSE "RetryHandler"]]
       /\ UNCHANGED <<links, dvars, bvars, fvars, xvars>>

\* RetryHandler.handle in call t: the code after the for loop
Shared_RetryHandler_exit(t) ==
    LET f == frames[t]
        r == Builder_RetryHandler_after(cells[SuccessOwner(t)])
        nxt == links["RetryHandler"]
    IN /\ \/ f.pc = "RetryHandler_exit"
          \/ /\ f.pc = "RetryHandler"
             /\ ~Builder_RetryHandler_loop(f.attempt, f.notification.retry_count)
       /\ frames' = [frames EXCEPT ![t] =
              IF r = "UnboundLocalError"
              THEN [f EXCEPT !.raised = "UnboundLocalError", !.pc = "done"]
              ELSE IF r = "False"
              THEN [f EXCEPT !.chainResult = "False", !.pc = "after_chain"]
              ELSE IF nxt # "None"
              THEN [f EXCEPT !.pc = nxt, !.handlers = Append(f.handlers, nxt)]
              ELSE [f EXCEPT !.chainResult = "True", !.pc = "after_chain"]]
       /\ links' = Handler_handle_links(links, "RetryHandler")
       /\ UNCHANGED <<cells, dvars, bvars, fvars, xvars>>

\* MetricsHandler.handle in call t
Shared_MetricsHandler_step(t) ==
    /\ frames[t].pc = "MetricsHandler"
    /\ frames' = [frames EXCEPT ![t] =
           [frames[t] EXCEPT !.chainResult = MetricsHandler_handle, !.pc = "after_chain"]]
    /\ links' = Handler_handle_links(links, "MetricsHandler")
    /\ UNCHANGED <<cells, dvars, bvars, fvars, xvars>>

\* send() in call t after chain.handle returned: notify the observers when the
\* result is truthy, then return
Shared_after_chain(t) ==
    LET f == frames[t]
    IN /\ f.pc = "after_chain"
       /\ frames' = [frames EXCEPT ![t] =
              IF Send_notifies("builder", f.chainResult)
              THEN [f EXCEPT !.notified = 1, !.updates = NotifyOrder(observers),
                             !.pc = "done"]
              ELSE [f EXCEPT !.pc = "done"]]
       /\ UNCHANGED <<links, cells, dvars, bvars, fvars, xvars>>

\* caller t goes on after a call that returned
Shared_next(t) ==
    /\ frames[t].pc = "done"
    /\ frames[t].raised = "none"
    /\ frames' = [frames EXCEPT ![t] = [NoFrame EXCEPT !.reused = TRUE]]
    /\ UNCHANGED <<links, cells, dvars, bvars, fvars, xvars>>

\* --------------------------------------------------------------------- specs
\* transports that fail on some of the calls the budget allows
FailCallSets(n) == SUBSET (1..n.retry_count)

\* a client hands some request to the entry point of some variant
Dispatch ==
    /\ pc = "idle"
    /\ \E v \in Variants : \E n \in Notifications(v) : \E fc \in FailCallSets(n) :
          Send(v, n, fc)

\* a client attaches one more observer to the system's event manager
SystemAttach ==
    /\ pc = "idle"
    /\ \E o \in UserObservers : attach(o)

Next ==
    \/ Dispatch
    \/ InputValidationHandler_handle
    \/ Builder_RetryHandler_attempt
    \/ Builder_RetryHandler_exit
    \/ Facade_RetryHandler_handle
    \/ MetricsHandler_step
    \/ Send_after_chain
    \/ notify_update
    \/ notify_return
    \/ SystemAttach
    \/ client_next

Spec == Init /\ [][Next]_vars

\* A dispatch call is synchronous: once entered, the interpreter executes its
\* next statement until the call returns or raises.
RunningCall ==
    \/ InputValidationHandler_handle
    \/ Builder_RetryHandler_attempt
    \/ Builder_RetryHandler_exit
    \/ Facade_RetryHandler_handle
    \/ MetricsHandler_step
    \/ Send_after_chain
    \/ notify_update
    \/ notify_return

\* dispatches on a system as constructed (the three built-in observers)
NextLive ==
    \/ Dispatch
    \/ RunningCall
    \/ client_next

SpecLive == Init /\ [][NextLive]_vars /\ WF_vars(RunningCall)

\* the event manager used on its own: any attach calls, then notify
\* a client attaches any observer to a manager of its own
ManagerAttach ==
    /\ pc = "manager"
    /\ \E o \in Observers : attach(o)

\* a client calls notify on a manager of its own
ManagerNotify ==
    /\ pc = "manager"
    /\ \E t \in SupportedTypes :
          manager_notify([notification_type |-> t, recipient |-> <<"a", "@">>,
                          message |-> "Hi", priority |-> "normal", retry_count |-> 1])

NextNotify ==
    \/ ManagerAttach
    \/ ManagerNotify
    \/ notify_update
    \/ notify_return
    \/ client_next

SpecNotify == InitNotify /\ [][NextNotify]_vars


\* a client drives one NotificationBuilder
BuilderSetType == pc = "builder" /\ \E x \in TypeArgs : set_type(x)
BuilderSetRecipient == pc = "builder" /\ \E x \in RecipientArgs : set_recipient(x)
BuilderSetMessage == pc = "builder" /\ \E x \in MessageArgs : set_message(x)
BuilderSetPriority == pc = "builder" /\ \E x \in PriorityArgs : set_priority(x)
BuilderSetRetry == pc = "builder" /\ \E x \in RetryArgs : set_retry(x)
BuilderAddMetadata ==
    pc = "builder" /\ \E k \in MetadataKeys : \E v \in MetadataValues : add_metadata(k, v)
BuilderBuild == pc = "builder" /\ build

NextBuilder ==
    \/ BuilderSetType
    \/ BuilderSetRecipient
    \/ BuilderSetMessage
    \/ BuilderSetPriority
    \/ BuilderSetRetry
    \/ BuilderAddMetadata
    \/ BuilderBuild

SpecBuilder == InitBuilder /\ [][NextBuilder]_vars

\* clients ask the factories for strategies
FactoryCreate ==
    pc = "factory" /\ \E v \in Variants : \E t \in Types : Factory_create(v, t)

NextFactory == FactoryCreate

SpecFactory == InitFactory /\ [][NextFactory]_vars

\* several callers use one NotificationSystem (builder variant), each running
\* its calls one statement at a time, in any interleaving
SharedDispatch ==
    /\ pc = "shared"
    /\ \E t \in Threads : \E n \in SharedRequests : \E fc \in FailCallSets(n) :
          Shared_send(t, n, fc)
SharedAttempt == pc = "shared" /\ \E t \in Threads : Shared_RetryHandler_attempt(t)
SharedExit == pc = "shared" /\ \E t \in Threads : Shared_RetryHandler_exit(t)
SharedMetrics == pc = "shared" /\ \E t \in Threads : Shared_MetricsHandler_step(t)
SharedAfterChain == pc = "shared" /\ \E t \in Threads : Shared_after_chain(t)
SharedNext == pc = "shared" /\ \E t \in Threads : Shared_next(t)

NextShared ==
    \/ SharedDispatch
    \/ SharedAttempt
    \/ SharedExit
    \/ SharedMetrics
    \/ SharedAfterChain
    \/ SharedNext

SpecShared == InitShared /\ [][NextShared]_vars

\* ------------------------------------------------ calls on the earlier files
InitEarly ==
    /\ pc = "early"
    /\ observers = <<>>
    /\ attached = <<>>
    /\ InitCall
    /\ InitBuilderVars
    /\ InitFactoryVars
    /\ InitSharedVars
    /\ einput \in EarlyInputs
    /\ InitEarlyCalls
    /\ InitLoggerVars
    /\ InitRegistryVars

\* the client calls send(recipient, message) on a strategy object of file f;
\* fail says whether the adapter variant's transport reports failure
Early_strategy_send(f, fail) ==
    /\ pc = "early"
    /\ einput.notification_type \in SupportedTypes
    /\ esends[f] = NoOutcome
    /\ LET cls == Adapter_NotificationFactory_create(einput.notification_type)
           reply == Provider_send("adapter", 1, IF fail THEN {1} ELSE {})
       IN esends' = [esends EXCEPT ![f] = File_Strategy_send(f, cls, einput.recipient, reply)]
    /\ UNCHANGED <<einput, ecalls, dvars, bvars, fvars, svars, lvars, gvars>>

\* the client calls singleton_design_pattern's send_notification
Singleton_call(coin) ==
    /\ pc = "early"
    /\ ecalls["singleton"] = NoCall
    /\ ecalls' = [ecalls EXCEPT !["singleton"] =
                     Singleton_send_notification(einput.notification_type, einput.recipient,
                                                 einput.message, coin)]
    /\ UNCHANGED <<einput, esends, dvars, bvars, fvars, svars, lvars, gvars>>

\* the client calls chain_of_responsibility_design_pattern's send_notification
CoR_call(coin) ==
    /\ pc = "early"
    /\ ecalls["chain"] = NoCall
    /\ ecalls' = [ecalls EXCEPT !["chain"] =
                     CoR_send_notification(einput.notification_type, einput.recipient,
                                           einput.message, coin)]
    /\ UNCHANGED <<einput, esends, dvars, bvars, fvars, svars, lvars, gvars>>

EarlyStrategySend == \E f \in StrategyModules, fail \in BOOLEAN : Early_strategy_send(f, fail)
SingletonCall == \E coin \in BOOLEAN : Singleton_call(coin)
CoRCall == \E coin \in BOOLEAN : CoR_call(coin)

NextEarly ==
    \/ EarlyStrategySend
    \/ SingletonCall
    \/ CoRCall

SpecEarly == InitEarly /\ [][NextEarly]_vars

\* ------------------------------------------------------------ Logger() calls
InitLogger ==
    /\ pc = "logger"
    /\ observers = <<>>
    /\ attached = <<>>
    /\ InitCall
    /\ InitBuilderVars
    /\ InitFactoryVars
    /\ InitSharedVars
    /\ InitExtraVars

\* thread t calls Logger() of file f: __new__ is entered
Logger_call(t, f) ==
    /\ pc = "logger"
    /\ lframes[t].pc = "idle"
    /\ LoggerCalls < MaxLoggerCalls
    /\ lframes' = [lframes EXCEPT ![t] = [pc |-> "check", module |-> f]]
    /\ UNCHANGED <<instances, lheap, lreturned, dvars, bvars, fvars, svars, evars, gvars>>

\* Logger.__new__: `if cls._instance is None:`
Logger_new_check(t) ==
    /\ pc = "logger"
    /\ lframes[t].pc = "check"
    /\ lframes' = [lframes EXCEPT ![t].pc =
                      IF Logger_instance_is_None(instances[lframes[t].module])
                      THEN "create" ELSE "return"]
    /\ UNCHANGED <<instances, lheap, lreturned, dvars, bvars, fvars, svars, evars, gvars>>

\* Logger.__new__: `cls._instance = super(Logger, cls).__new__(cls)`
Logger_new_create(t) ==
    /\ pc = "logger"
    /\ lframes[t].pc = "create"
    /\ lheap' = Append(lheap, lframes[t].module)
    /\ instances' = [instances EXCEPT ![lframes[t].module] = Len(lheap) + 1]
    /\ lframes' = [lframes EXCEPT ![t].pc = "return"]
    /\ UNCHANGED <<lreturned, dvars, bvars, fvars, svars, evars, gvars>>

\* Logger.__new__: `return cls._instance`
Logger_new_return(t) ==
    /\ pc = "logger"
    /\ lframes[t].pc = "return"
    /\ lreturned' = Append(lreturned, [thread |-> t, module |-> lframes[t].module,
                                       obj |-> instances[lframes[t].module]])
    /\ lframes' = [lframes EXCEPT ![t] = NoLoggerFrame]
    /\ UNCHANGED <<instances, lheap, dvars, bvars, fvars, svars, evars, gvars>>

\* the statements of the program's only thread
LoggerCall == \E f \in LoggerModules : Logger_call(1, f)
LoggerCheck == Logger_new_check(1)
LoggerCreate == Logger_new_create(1)
LoggerReturn == Logger_new_return(1)

NextLogger ==
    \/ LoggerCall
    \/ LoggerCheck
    \/ LoggerCreate
    \/ LoggerReturn

SpecLogger == InitLogger /\ [][NextLogger]_vars

\* the same statements run by several threads, interleaved statement by statement
ThreadsLoggerCall == \E t \in Threads, f \in LoggerModules : Logger_call(t, f)
ThreadsLoggerCheck == \E t \in Threads : Logger_new_check(t)
ThreadsLoggerCreate == \E t \in Threads : Logger_new_create(t)
ThreadsLoggerReturn == \E t \in Threads : Logger_new_return(t)

NextLoggerThreads ==
    \/ ThreadsLoggerCall
    \/ ThreadsLoggerCheck
    \/ ThreadsLoggerCreate
    \/ ThreadsLoggerReturn

SpecLoggerThreads == InitLogger /\ [][NextLoggerThreads]_vars

\* ------------------------------- calls on a facade NotificationEventManager
InitRegistry ==
    /\ pc = "registry"
    /\ observers = <<>>
    /\ attached = <<>>
    /\ InitCall
    /\ InitBuilderVars
    /\ InitFactoryVars
    /\ InitSharedVars
    /\ InitExtraVars

\* NotificationEventManager.attach(observer)
Registry_attach(o) ==
    /\ pc = "registry"
    /\ Len(registry) < MaxObservers
    /\ registry' = Facade_NotificationEventManager_attach(registry, o)
    /\ rop' = RegistryOp("attach", o, "none", <<>>)
    /\ UNCHANGED <<dvars, bvars, fvars, svars, evars, lvars>>

\* NotificationEventManager.remove(observer): list.remove raises ValueError
\* when the observer is not in the list, which then stays as it was
Registry_remove(o) ==
    /\ pc = "registry"
    /\ LET r == Facade_NotificationEventManager_remove(registry, o)
       IN IF r = "ValueError"
          THEN /\ registry' = registry
               /\ rop' = RegistryOp("remove", o, "ValueError", <<>>)
          ELSE /\ registry' = r
               /\ rop' = RegistryOp("remove", o, "none", <<>>)
    /\ UNCHANGED <<dvars, bvars, fvars, svars, evars, lvars>>

\* NotificationEventManager.notify(event_data)
Registry_notify ==
    /\ pc = "registry"
    /\ LET r == Facade_NotificationEventManager_notify(registry)
       IN rop' = RegistryOp("notify", "none", r.raised, r.updates)
    /\ UNCHANGED <<registry, dvars, bvars, fvars, svars, evars, lvars>>

RegistryAttach == \E o \in Observers : Registry_attach(o)
RegistryRemove == \E o \in Observers : Registry_remove(o)
RegistryNotify == Registry_notify

NextRegistry ==
    \/ RegistryAttach
    \/ RegistryRemove
    \/ RegistryNotify

SpecRegistry == InitRegistry /\ [][NextRegistry]_vars

\* ==================================================================== claims
\* the recipient passes the format check of the channel's strategy
FormatValid(n) ==
    \/ n.notification_type = "email" /\ Contains(n.recipient, "@")
    \/ n.notification_type = "sms" /\ IsDigit(n.recipient)
    \/ n.notification_type = "push"

\* the retry stage of the running dispatch has finished
RetryStageOver == pc \in {"RetryHandler_exit", "MetricsHandler", "after_chain", "notify", "done"}

\* C1: builder variant, retry budget N >= 1, a recipient the strategy accepts and
\* a provider that fails on its first N-1 calls and succeeds on the N-th: once
\* the retry stage is over the strategy (and the provider) was invoked exactly
\* N times, no exception escaped, and the chain's result, once there, is True.
C1_RetryUntilSuccess ==
    ( /\ variant = "builder"
      /\ strategy # "None"
      /\ RetryStageOver
      /\ notification.retry_count >= 1
      /\ FormatValid(notification)
      /\ failCalls = 1..(notification.retry_count - 1) )
    => /\ strategyCalls = notification.retry_count
       /\ providerCalls = notification.retry_count
       /\ success = "True"
       /\ raised \in {"none", "ObserverError"}
       /\ (pc \in {"after_chain", "notify", "done"} => chainResult = "True")

C1_Witness ==
    /\ variant = "builder"
    /\ pc = "after_chain"
    /\ notification.retry_count = 3
    /\ failCalls = {1, 2}
    /\ results = <<"False", "False", "True">>
    /\ strategyCalls = 3
    /\ chainResult = "True"

\* C2: builder variant, retry budget N >= 1 and a provider that fails on every
\* call: no observer update and no notify happens at any point of the dispatch,
\* and when the dispatch is over exactly N send attempts were made (N provider
\* calls for a recipient the strategy accepts) and the chain returned False.
C2_AlwaysFailing ==
    ( /\ variant = "builder"
      /\ strategy # "None"
      /\ notification.retry_count >= 1
      /\ failCalls = 1..notification.retry_count )
    => /\ updates = <<>>
       /\ notifyCalls = 0
       /\ strategyCalls <= notification.retry_count
       /\ (pc = "done" =>
             /\ strategyCalls = notification.retry_count
             /\ (FormatValid(notification) => providerCalls = notification.retry_count)
             /\ chainResult = "False"
             /\ raised = "none")

C2_Witness ==
    /\ variant = "builder"
    /\ pc = "done"
    /\ notification.retry_count = 3
    /\ failCalls = {1, 2, 3}
    /\ providerCalls = 3
    /\ chainResult = "False"
    /\ updates = <<>>

\* C3: within one dispatch only the last send attempt made so far can have
\* succeeded: no attempt follows a successful one, whatever the budget and the
\* provider's pattern of failures.
C3_NoSendAfterSuccess ==
    /\ Len(results) = strategyCalls
    /\ \A i \in 1..(Len(results) - 1) : ~Truthy(results[i])

\* a dispatch that succeeded on its second attempt and stopped with budget left
C3_Witness ==
    /\ variant = "builder"
    /\ pc = "done"
    /\ notification.retry_count = 3
    /\ results = <<"False", "True">>

\* C4: in every state, an observer update (or a notify call) has happened for
\* the running request only if its chain returned True; a dispatch whose chain
\* returned False, or never returned, has no update.
C4_EventOnlyAfterSuccess ==
    (updates # <<>> \/ notifyCalls > 0) => chainResult = "True"

C4_Witness ==
    /\ variant = "facade"
    /\ pc = "done"
    /\ chainResult = "True"
    /\ updates = <<"Analytics", "Audit", "Billing">>

\* C5: when a dispatch whose chain returned True is over, notify was invoked
\* once and every attached observer received exactly one update.
C5_OneUpdateEach ==
    (pc = "done" /\ variant # "adapter" /\ chainResult = "True")
    => /\ notifyCalls = 1
       /\ updates = observers

\* C6: the update calls of one notify follow the order of the attach calls:
\* at every point they are a prefix of the attach sequence, and a notify that
\* returned has gone through all of it.
C6_AttachOrder ==
    /\ IsPrefix(updates, attached)
    /\ (pc = "done" /\ raised = "none" => updates = attached)

C6_Witness ==
    /\ pc = "done"
    /\ raised = "none"
    /\ attached = <<"Analytics", "Audit", "Billing">>
    /\ updates = <<"Analytics", "Audit", "Billing">>

\* C7: when a notify on three attached observers is over, each of the three was
\* invoked, in attachment order, also when one of them raised.
C7_Isolation ==
    (pc = "done" /\ Len(observers) = 3) => updates = observers

\* C8: a dispatch whose chain returned True ends with no exception escaping to
\* the caller of send / notify.
C8_ObserverFailureContained ==
    (pc = "done" /\ chainResult = "True") => raised = "none"

\* C9: in the builder and facade variants a request whose recipient or message
\* is empty never reaches a provider adapter, and its dispatch ends rejected:
\* the chain returned False and no observer was notified.
C9_EmptyInputRejected ==
    ( /\ variant \in {"builder", "facade"}
      /\ strategy # "None"
      /\ (notification.recipient = <<>> \/ notification.message = "") )
    => /\ providerCalls = 0
       /\ (pc = "done" /\ raised = "none" => chainResult = "False" /\ updates = <<>>)

\* C10: EmailNotification.send returns False without a provider call when the
\* recipient has no "@", and calls the provider once per send when it has one.
C10_EmailFormatCheck ==
    strategy = "EmailNotification"
    => IF Contains(notification.recipient, "@")
       THEN providerCalls = strategyCalls
       ELSE providerCalls = 0 /\ \A i \in 1..Len(results) : results[i] = "False"

\* C11: SMSNotification.send returns False without a provider call unless the
\* recipient is all digits, and calls the provider once per send when it is.
C11_SMSFormatCheck ==
    strategy = "SMSNotification"
    => IF IsDigit(notification.recipient)
       THEN providerCalls = strategyCalls
       ELSE providerCalls = 0 /\ \A i \in 1..Len(results) : results[i] = "False"

\* C12: builder variant, PushNotification.send: every send, whatever the
\* recipient, makes exactly one provider call, with the request's recipient and
\* message, and returns what that call returned.
C12_PushDelegates ==
    (variant = "builder" /\ strategy = "PushNotification")
    => /\ providerCalls = strategyCalls
       /\ Len(providerArgs) = strategyCalls
       /\ \A i \in 1..Len(providerArgs) :
             providerArgs[i] = <<handedOff.recipient, handedOff.message>>
       /\ \A i \in 1..Len(results) : results[i] = Provider_send("builder", i, failCalls)

\* a push to a recipient that is neither an address nor a number, failing once
C12_Witness ==
    /\ variant = "builder"
    /\ strategy = "PushNotification"
    /\ pc = "done"
    /\ notification.recipient = <<"a">>
    /\ results = <<"False", "True">>
    /\ providerArgs = <<<< <<"a">>, "Hi" >>, << <<"a">>, "Hi" >>>>

\* C13: in every variant, a dispatch of a non-empty request with a recipient its
\* channel accepts and a transport that completes every handoff ends with every
\* send returning True, the metrics stage run and the chain returning True.
C13_HandoffReportsTrue ==
    ( /\ pc = "done"
      /\ strategy # "None"
      /\ FormatValid(notification)
      /\ notification.recipient # <<>>
      /\ notification.message # ""
      /\ notification.retry_count >= 1
      /\ failCalls = {} )
    => /\ \A i \in 1..Len(results) : results[i] = "True"
       /\ \E i \in 1..Len(handlers) : handlers[i] = "MetricsHandler"
       /\ chainResult = "True"

\* C15: a request whose type is none of email, sms, push ends its dispatch in
\* the factory's ValueError: no handler ran, no send attempt and no provider
\* call was made, nothing was retried and no observer was notified, whatever
\* the recipient and the message.
C15_UnsupportedChannel ==
    (pc # "idle" /\ handedOff # NoNotification
       /\ handedOff.notification_type \notin SupportedTypes)
    => /\ pc = "done"
       /\ raised = "ValueError"
       /\ strategy = "None"
       /\ handlers = <<>>
       /\ chainResult = "none"
       /\ strategyCalls = 0
       /\ providerCalls = 0
       /\ attempt = 0
       /\ notifyCalls = 0
       /\ updates = <<>>

C15_Witness ==
    /\ variant = "builder"
    /\ pc = "done"
    /\ raised = "ValueError"
    /\ handedOff.notification_type = "fax"
    /\ handedOff.recipient = <<>>
    /\ handedOff.message = ""
    /\ handedOff.retry_count = 3

\* the builder's fields are what the setter calls so far say: each field holds
\* the argument of the last call of its own setter, or its initial value
FieldsAsSet ==
    /\ bfields.notification_type = lastArgs.notification_type
    /\ bfields.recipient = lastArgs.recipient
    /\ bfields.message = lastArgs.message
    /\ bfields.priority = IF lastArgs.priority = <<>> THEN <<"normal">> ELSE lastArgs.priority
    /\ bfields.retry_count = IF lastArgs.retry_count = <<>> THEN <<1>> ELSE lastArgs.retry_count
    /\ bfields.metadata = lastArgs.metadata

\* type, recipient or message was never set, or was last set to an empty value
RequiredMissing ==
    \/ lastArgs.notification_type \in {<<>>, <<"">>}
    \/ lastArgs.recipient \in {<<>>, << <<>> >>}
    \/ lastArgs.message \in {<<>>, <<"">>}

BuildReturned == bresult \in {"ValueError", "Notification"}

\* C14: every strategy a factory returned is the class of the requested type,
\* wired with that type's adapter (email: EmailNotification + SendGridAdapter,
\* sms: SMSNotification + TwillioAdapter, push: PushNotification +
\* FireBaseAdapter), and its strategy, adapter and API objects are objects of
\* their own: none of them is an object of a pair returned by another call.
C14_FactoryWiring ==
    \A i \in 1..Len(created) :
        LET c == created[i]
            ids(x) == {x.strategy.id, x.provider.id, x.api.id}
        IN /\ c.for_type = "email"
                => c.strategy.cls = "EmailNotification" /\ c.provider.cls = "SendGridAdapter"
           /\ c.for_type = "sms"
                => c.strategy.cls = "SMSNotification" /\ c.provider.cls = "TwillioAdapter"
           /\ c.for_type = "push"
                => c.strategy.cls = "PushNotification" /\ c.provider.cls = "FireBaseAdapter"
           /\ c.for_type \in SupportedTypes
           /\ Cardinality(ids(c)) = 3
           /\ \A j \in 1..Len(created) : j # i => ids(c) \cap ids(created[j]) = {}

\* the same factory asked twice for email, then for sms
C14_Witness ==
    /\ Len(created) = 3
    /\ created[1].module = "builder" /\ created[1].for_type = "email"
    /\ created[2].module = "builder" /\ created[2].for_type = "email"
    /\ created[3].module = "facade" /\ created[3].for_type = "sms"
    /\ created[2].provider.cls = "SendGridAdapter"
    /\ created[1].provider.id # created[2].provider.id

\* C16: whenever build() is called while type, recipient or message was never
\* set or was last set to an empty value, whatever other setters were called
\* and in whatever order, the call raises ValueError (so returns no request),
\* and after a raising build the builder's fields are still the values set.
C16_IncompleteRejected ==
    BuildReturned
    => /\ RequiredMissing => bresult = "ValueError"
       /\ bresult = "ValueError" => FieldsAsSet

\* recipient never set, every other setter called
C16_Witness ==
    /\ bresult = "ValueError"
    /\ lastArgs.notification_type = <<"email">>
    /\ lastArgs.recipient = <<>>
    /\ lastArgs.message = <<"Hi">>
    /\ lastArgs.priority = <<"high">>
    /\ lastArgs.retry_count = <<3>>
    /\ lastArgs.metadata # {}

\* C17: after any sequence of setter calls each builder field holds the
\* argument of the last call of its own setter (or its initial value); a build
\* with type, recipient and message set non-empty returns a request, and every
\* field of that request is the last value set, with priority "normal", retry
\* count 1 and empty metadata where the setter was never called.
C17_BuildReturnsLastSet ==
    /\ FieldsAsSet
    /\ (BuildReturned /\ ~RequiredMissing) => bresult = "Notification"
    /\ bresult = "Notification"
       => LET r == built[Len(built)]
          IN /\ <<r.notification_type>> = lastArgs.notification_type
             /\ <<r.recipient>> = lastArgs.recipient
             /\ <<r.message>> = lastArgs.message
             /\ r.priority = IF lastArgs.priority = <<>> THEN "normal"
                             ELSE lastArgs.priority[1]
             /\ r.retry_count = IF lastArgs.retry_count = <<>> THEN 1
                                ELSE lastArgs.retry_count[1]
             /\ MetadataOf(r, bfields) = lastArgs.metadata

\* a build after set_retry(3) and two add_metadata calls, priority never set
C17_Witness ==
    /\ bresult = "Notification"
    /\ lastArgs.priority = <<>>
    /\ lastArgs.retry_count = <<3>>
    /\ lastArgs.metadata = {<<"campaign", "Holi Sale">>}
    /\ built[Len(built)].priority = "normal"
    /\ built[Len(built)].retry_count = 3
    /\ built[Len(built)].recipient = <<"a", "@">>

\* C18: the metadata of every request build() returned is still what it was
\* when the request was returned, whatever was called on the builder since,
\* and no two built requests hold the same metadata dict.
C18_BuiltRequestImmutable ==
    /\ \A i \in 1..Len(built) : MetadataOf(built[i], bfields) = snapshots[i]
    /\ \A i, j \in 1..Len(built) :
          i < j => ~(built[i].metadata = "builders_dict" /\ built[j].metadata = "builders_dict")

\* C19: builder variant: from the handoff to send() until its return, as long
\* as only built-in observers were notified, the request object has the field
\* values it was handed off with, and a request whose type, recipient and
\* message build() accepts has all three non-empty.
C19_RequestStable ==
    (variant = "builder" /\ pc # "idle" /\ handedOff # NoNotification)
    => /\ (\A i \in 1..Len(updates) : updates[i] \in BuiltinObservers)
            => notification = handedOff
       /\ ~NotificationBuilder_build_rejects(
              [notification_type |-> Some(handedOff.notification_type),
               recipient |-> Some(handedOff.recipient),
               message |-> Some(handedOff.message),
               priority |-> Some(handedOff.priority),
               retry_count |-> Some(handedOff.retry_count),
               metadata |-> {}])
          => /\ handedOff.notification_type # ""
             /\ handedOff.recipient # <<>>
             /\ handedOff.message # ""

\* a high-priority email delivered at the second attempt, all observers told
C19_Witness ==
    /\ variant = "builder"
    /\ pc = "done"
    /\ handedOff.notification_type = "email"
    /\ handedOff.priority = "high"
    /\ handedOff.message = "Hi"
    /\ results = <<"False", "True">>
    /\ Len(updates) = 3
    /\ notification = handedOff

\* C20: the retry count of every request build() returned is a non-negative
\* integer.
C20_RetryBudgetNonNegative ==
    \A i \in 1..Len(built) : built[i].retry_count >= 0

\* C21: whatever an observer assigns to the event it is handed, the request the
\* caller handed to the entry point keeps the field values it was handed off
\* with until the call returns.
C21_EventIsCopy ==
    (pc # "idle" /\ handedOff # NoNotification) => notification = handedOff

\* C22: builder variant, a system with its three built-in observers: an email
\* request with an "@" recipient, a non-empty message, retry_count 1 and a
\* transport that never fails ends with the chain returning True, no exception,
\* notify called exactly once and every observer updated, and the event handed
\* to each observer carries type email and the request's recipient and priority.
C22_EmailScenario ==
    ( /\ variant = "builder"
      /\ handedOff.notification_type = "email"
      /\ Contains(handedOff.recipient, "@")
      /\ handedOff.message # ""
      /\ handedOff.retry_count = 1
      /\ failCalls = {}
      /\ observers = NotificationSystem_init_observers )
    => /\ raised = "none"
       /\ notifyCalls <= 1
       /\ pc \in {"after_chain", "notify", "done"} => chainResult = "True"
       /\ pc = "notify"
            => /\ notifyCalls = 1
               /\ event.notification_type = "email"
               /\ event.recipient = handedOff.recipient
               /\ event.priority = handedOff.priority
       /\ pc = "done"
            => /\ notifyCalls = 1
               /\ strategyCalls = 1
               /\ updates = observers

\* a high-priority email to "a@" delivered and all three observers told
C22_Witness ==
    /\ variant = "builder"
    /\ pc = "done"
    /\ handedOff.notification_type = "email"
    /\ handedOff.recipient = <<"a", "@">>
    /\ handedOff.priority = "high"
    /\ handedOff.retry_count = 1
    /\ failCalls = {}
    /\ updates = <<"Analytics", "Audit", "Billing">>
    /\ event.priority = "high"

\* C23: a dispatch of an SMS request whose recipient is non-empty but not all
\* digits, with a non-empty message, ends with no provider call, no notify, no
\* exception and False returned to the caller of the entry point; a dispatch
\* whose chain returned True and raised nothing returns True to the caller.
C23_SMSScenario ==
    /\ ( /\ pc = "done"
         /\ handedOff.notification_type = "sms"
         /\ ~IsDigit(handedOff.recipient)
         /\ handedOff.recipient # <<>>
         /\ handedOff.message # ""
         /\ handedOff.retry_count >= 1 )
       => /\ providerCalls = 0
          /\ notifyCalls = 0
          /\ raised = "none"
          /\ returned = "False"
    /\ (pc = "done" /\ chainResult = "True" /\ raised = "none") => returned = "True"

\* C29: builder variant: a dispatch of a request of a supported type, with
\* non-empty recipient and message and retry_count 0, ends with no send attempt, the chain returning False, no
\* notify and no exception.
C29_ZeroBudget ==
    ( /\ variant = "builder"
      /\ pc = "done"
      /\ handedOff.notification_type \in SupportedTypes
      /\ handedOff.recipient # <<>>
      /\ handedOff.message # ""
      /\ handedOff.retry_count = 0 )
    => /\ strategyCalls = 0
       /\ chainResult = "False"
       /\ notifyCalls = 0
       /\ raised = "none"

\* C30: in a dispatch of an email or SMS request with a non-empty message whose
\* non-empty recipient fails the channel's format check the strategy's send is invoked at most once,
\* whatever the retry_count.
C30_FormatFailureNotRetried ==
    ( /\ pc # "idle"
      /\ handedOff.notification_type \in {"email", "sms"}
      /\ handedOff.recipient # <<>>
      /\ handedOff.message # ""
      /\ ~FormatValid(handedOff) )
    => strategyCalls <= 1

\* chain.handle of the running dispatch has returned
ChainReturned ==
    strategy # "None" /\ pc \in {"after_chain", "notify", "done"} /\ raised # "UnboundLocalError"

\* number of "Notification processed" lines the metrics stage logged
MetricsRuns == Cardinality({i \in 1..Len(log) : log[i].text = "Notification processed"})

\* C24: MetricsHandler is the last handler of every variant's chain and has no
\* next handler; once the chain is left, it ran exactly once if the send stage
\* ended with a truthy `success` and not at all otherwise, and whenever it ran
\* it was the last handler to run and the chain returned True.
C24_MetricsTerminal ==
    /\ \A v \in Variants :
          /\ Chain(v)[Len(Chain(v))] = "MetricsHandler"
          /\ next_handler(v, "MetricsHandler") = "None"
    /\ MetricsRuns <= 1
    /\ (strategy # "None" /\ pc \in {"after_chain", "notify", "done"})
       => /\ MetricsRuns = (IF success = "True" THEN 1 ELSE 0)
          /\ MetricsRuns = 1
               => /\ handlers[Len(handlers)] = "MetricsHandler"
                  /\ chainResult = "True"

\* a delivered facade dispatch and the three handlers it ran
C24_Witness ==
    /\ variant = "facade"
    /\ pc = "done"
    /\ success = "True"
    /\ handlers = <<"InputValidationHandler", "RetryHandler", "MetricsHandler">>
    /\ MetricsRuns = 1
    /\ chainResult = "True"

\* C25: the handlers that ran are always an initial part of the chain, in chain
\* order; the chain returns True exactly when all of them ran; when the
\* validation stage finds an empty recipient or message, or the send stage ends
\* with a falsy result, that handler is the last one that ran, no later stage
\* acted and the chain returned False.
C25_ShortCircuit ==
    /\ (strategy # "None" /\ pc # "idle") => IsPrefix(handlers, Chain(variant))
    /\ ChainReturned
       => /\ chainResult \in {"True", "False"}
          /\ chainResult = "True" <=> handlers = Chain(variant)
          /\ ( /\ Head(Chain(variant)) = "InputValidationHandler"
               /\ InputValidationHandler_rejects(handedOff.recipient, handedOff.message) )
             => /\ handlers = <<"InputValidationHandler">>
                /\ strategyCalls = 0
                /\ MetricsRuns = 0
                /\ chainResult = "False"
          /\ (strategyCalls > 0 /\ ~Truthy(success))
             => /\ handlers[Len(handlers)] = "RetryHandler"
                /\ MetricsRuns = 0
                /\ chainResult = "False"

\* a facade dispatch whose only send fails at the transport
C25_Witness ==
    /\ variant = "facade"
    /\ pc = "done"
    /\ handlers = <<"InputValidationHandler", "RetryHandler">>
    /\ results = <<"False">>
    /\ providerCalls = 1
    /\ chainResult = "False"
    /\ notifyCalls = 0

\* the running dispatch is in its validation, send or finalisation stage, or
\* between the chain and the return of the entry point
InDispatch ==
    pc \in {"InputValidationHandler", "RetryHandler", "RetryHandler_exit",
            "MetricsHandler", "after_chain", "notify"}

\* terminal state Notified: the send succeeded, the metrics stage ran and every
\* observer was notified
Notified ==
    /\ Truthy(success)
    /\ MetricsRuns = 1
    /\ notifyCalls = 1
    /\ updates = observers

\* terminal state Aborted: no event was emitted
Aborted == notifyCalls = 0 /\ updates = <<>>

FrameOutcome(f) ==
    [results |-> f.results, pcalls |-> f.pcalls, handlers |-> f.handlers,
     chainResult |-> f.chainResult, notified |-> f.notified, raised |-> f.raised]

\* C26: on a NotificationSystem that is used again and again the next_handler
\* fields stay as _build_chain set them, no handle call stores anything on the
\* RetryHandler object, and every call made after earlier calls ends exactly as
\* the same request with the same transport responses ends on its own.
C26_ChainStateless ==
    /\ links = Builder_build_chain_links
    /\ cells[0] = "unbound"
    /\ \A t \in Threads :
          (frames[t].reused /\ frames[t].pc = "done")
          => FrameOutcome(frames[t])
               = NotificationSystem_send_alone(frames[t].notification, frames[t].fc)

\* a second call of caller 1, delivered at its second attempt, after caller 2
\* has made calls as well
C26_Witness ==
    /\ frames[1].reused
    /\ frames[2].reused
    /\ frames[1].pc = "done"
    /\ frames[1].results = <<"False", "True">>
    /\ frames[1].handlers = <<"RetryHandler", "MetricsHandler">>
    /\ frames[1].notified = 1

\* C27: under every interleaving of the calls that run on one system, the send
\* results of each call are at any moment an initial part of the results it
\* gets when run alone, and the finished call made the same sends, ran the same
\* handlers, returned or raised the same and notified as often as when run
\* alone.
C27_ConcurrentDispatch ==
    \A t \in Threads :
        LET f == frames[t]
            alone == NotificationSystem_send_alone(f.notification, f.fc)
        IN /\ f.pc # "idle" => IsPrefix(f.results, alone.results)
           /\ f.pc = "done" => FrameOutcome(f) = alone
           /\ f.pc \in {"RetryHandler_exit", "MetricsHandler", "after_chain"}
                => f.results # <<>> /\ f.results[Len(f.results)] = cells[t]

\* caller 1 has just had a failed send and caller 2 a successful one, both
\* still inside the retry stage
C27_Witness ==
    /\ frames[1].pc = "RetryHandler"
    /\ frames[1].results = <<"False">>
    /\ frames[1].notification.retry_count = 2
    /\ frames[2].pc = "RetryHandler_exit"
    /\ frames[2].results = <<"True">>

\* the retry warnings logged so far in the current dispatch
Warnings == SelectSeq(log, LAMBDA e : e.level = "warning")

\* the send attempts of the current dispatch whose result was falsy
FailedAttempts == {i \in 1..Len(results) : ~Truthy(results[i])}

\* C31: in the builder variant every send attempt with a falsy result is
\* reported by one warning before the next attempt: the warnings are numbered
\* 1, 2, ... in order, there are as many as failed attempts, every attempt that
\* was followed by another one failed, and a new attempt starts only when all
\* attempts before it have their warning.
C31_FailedAttemptReported ==
    (variant = "builder" /\ strategy # "None")
    => /\ Len(Warnings) = Cardinality(FailedAttempts)
       /\ \A i \in 1..Len(Warnings) :
             Warnings[i] = Entry("warning", "Retry attempt", i)
       /\ \A i \in 1..(Len(results) - 1) : i \in FailedAttempts
       /\ Len(Warnings) >= strategyCalls - 1
       /\ (pc = "RetryHandler" => Len(Warnings) = strategyCalls)

\* a builder dispatch of three attempts: two failed and were reported, the
\* third succeeded
C31_Witness ==
    /\ variant = "builder"
    /\ pc = "done"
    /\ results = <<"False", "False", "True">>
    /\ Len(Warnings) = 2
    /\ Warnings[2].n = 2

\* one step of a builder or facade dispatch keeps the stage order
StageOrderStep ==
    variant \in {"builder", "facade"} =>
          /\ strategyCalls' > strategyCalls
                => /\ strategy # "None"
                   /\ pc = "RetryHandler"
                   /\ MetricsRuns = 0
                   /\ notifyCalls = 0
                   /\ updates = <<>>
          /\ MetricsRuns' > MetricsRuns
                => /\ strategyCalls >= 1
                   /\ strategyCalls' = strategyCalls
                   /\ Truthy(success)
                   /\ notifyCalls = 0
                   /\ updates = <<>>
          /\ Len(updates') > Len(updates)
                => /\ MetricsRuns = 1
                   /\ MetricsRuns' = 1
                   /\ strategyCalls' = strategyCalls
                   /\ IsPrefix(updates', observers)
          /\ (pc # "done" /\ pc' = "done" /\ raised' = "none" /\ strategy # "None")
                => \/ /\ chainResult = "True"
                      /\ MetricsRuns = 1
                      /\ updates' = observers
                   \/ /\ chainResult = "False"
                      /\ notifyCalls = 0
                      /\ updates' = <<>>
          /\ pc = "done"
                => /\ strategyCalls' <= strategyCalls
                   /\ MetricsRuns' <= MetricsRuns
                   /\ Len(updates') <= Len(updates)

\* C32: in the builder and facade variants the stages of one dispatch occur in
\* the order factory, send attempts, metrics stage, observer updates: a send
\* attempt is made only with the strategy resolved and before the metrics stage
\* and any update; the metrics stage runs after the last send attempt and
\* before any update; an update is made only after the metrics stage; the call
\* returns to its caller only with every stage complete (all observers updated,
\* or no event emitted), and nothing of the dispatch runs after it returned.
C32_StageOrder == [][StageOrderStep]_vars

\* a facade dispatch that returned after all four stages: strategy resolved,
\* one send, the metrics stage, the three built-in observers updated
C32_Witness ==
    /\ variant = "facade"
    /\ pc = "done"
    /\ raised = "none"
    /\ returned = "None"
    /\ strategy = "EmailNotification"
    /\ strategyCalls = 1
    /\ handlers = <<"InputValidationHandler", "RetryHandler", "MetricsHandler">>
    /\ MetricsRuns = 1
    /\ updates = <<"Analytics", "Audit", "Billing">>

\* the recipient of the client's input fails the format check of its channel
FormatFails(inp) ==
    \/ inp.notification_type = "email" /\ ~Contains(inp.recipient, "@")
    \/ inp.notification_type = "sms" /\ ~IsDigit(inp.recipient)

\* the lines of a strategy's output that report the error / the send
ErrorLines(out) == {i \in 1..Len(out.logged) : out.logged[i].level = "error"}
SentLines(out) == {i \in 1..Len(out.logged) : out.logged[i].text \in {"sent mail", "sent message"}}

\* C33: in strategy_, factory_, singleton_, chain_of_responsibility_ and
\* adapter_design_pattern.py an Email or SMS send on a recipient that fails the
\* format check logs one error and goes on: the four earlier files print their
\* send lines after the error, the adapter variant calls its provider, and send
\* returns what the send step yields.
C33_ValidationOnlyLogs ==
    \A f \in StrategyModules :
        (esends[f] # NoOutcome /\ FormatFails(einput))
        => /\ Cardinality(ErrorLines(esends[f])) = 1
           /\ 1 \in ErrorLines(esends[f])
           /\ IF f = "adapter"
              THEN /\ esends[f].called = 1
                   /\ esends[f].result \in {"None", "False"}
              ELSE /\ Cardinality(SentLines(esends[f])) = 1
                   /\ \A i \in SentLines(esends[f]) : i > 1
                   /\ esends[f].result = "None"

\* an email send to "a" (no "@") was made in every file: each logged the error
\* and still performed its send step
C33_Witness ==
    /\ einput.notification_type = "email"
    /\ einput.recipient = <<"a">>
    /\ \A f \in StrategyModules : esends[f] # NoOutcome
    /\ esends["singleton"].logged[1].level = "error"
    /\ esends["singleton"].logged[3] = Entry("success", "sent mail", 0)
    /\ esends["adapter"].called = 1

\* C34: for every type, recipient and message, send_notification of the
\* chain-of-responsibility file and of the singleton file end alike: the same
\* value returned or the same error raised, after the same number of
\* strategy.send calls.
C34_ChainRefactorPreserves ==
    (ecalls["singleton"] # NoCall /\ ecalls["chain"] # NoCall)
    => /\ ecalls["chain"].result = ecalls["singleton"].result
       /\ ecalls["chain"].raised = ecalls["singleton"].raised
       /\ ecalls["chain"].sends = ecalls["singleton"].sends

\* both files were called with a well-formed email request: one strategy.send
\* each, and both returned False because the strategy's send returns None
C34_Witness ==
    /\ einput = [notification_type |-> "email", recipient |-> <<"a", "@">>, message |-> "Hi"]
    /\ ecalls["singleton"].sends = 1
    /\ ecalls["chain"].sends = 1
    /\ ecalls["singleton"].result = "False"
    /\ ecalls["chain"].result = "False"

\* the Logger() calls of file f that returned so far
ReturnedOf(f) == {i \in 1..Len(lreturned) : lreturned[i].module = f}

\* the Logger objects of file f created so far
CreatedOf(f) == {i \in 1..Len(lheap) : lheap[i] = f}

\* every Logger() call of a file that returned so far returned the same object,
\* the one held by that file's Logger._instance
ReturnedSame ==
    \A f \in LoggerModules : \A i \in ReturnedOf(f) :
        /\ lreturned[i].obj = instances[f]
        /\ lreturned[i].obj # 0

\* C35: in a single thread, after any sequence of Logger() constructions every
\* call of a file's Logger returned the same instance, only one was ever
\* created, and Logger._instance never changes once it is not None.
C35_LoggerInitializedOnce ==
    [][ /\ ReturnedSame'
        /\ \A f \in LoggerModules :
              /\ Cardinality(CreatedOf(f)') <= 1
              /\ instances[f] # 0 => instances'[f] = instances[f] ]_vars

\* three Logger() calls returned, two of them for the singleton file's Logger:
\* both got object 1, the only one created for that class
C35_Witness ==
    /\ pc = "logger"
    /\ Len(lreturned) = 3
    /\ lreturned[1] = [thread |-> 1, module |-> "singleton", obj |-> 1]
    /\ lreturned[3] = [thread |-> 1, module |-> "singleton", obj |-> 1]
    /\ lreturned[2].module = "builder"
    /\ instances["singleton"] = 1

\* C36: when several threads call Logger() at the same time with no instance
\* yet, at most one Logger object is created per class and every caller gets
\* that object.
C36_AtMostOneInstance ==
    \A f \in LoggerModules :
        /\ Cardinality(CreatedOf(f)) <= 1
        /\ \A i, j \in ReturnedOf(f) : lreturned[i].obj = lreturned[j].obj

\* the position of the first occurrence of observer o in the list
FirstIndex(list, o) ==
    CHOOSE i \in 1..Len(list) : list[i] = o /\ \A k \in 1..(i - 1) : list[k] # o

\* one call on the facade event manager does what C37 says of it
RegistryStep ==
    /\ rop'.op = "notify"
          => /\ rop'.updates = registry
             /\ registry' = registry
    /\ (rop'.op = "remove" /\ Contains(registry, rop'.arg))
          => /\ rop'.raised = "none"
             /\ Len(registry') = Len(registry) - 1
             /\ \A j \in 1..Len(registry') :
                   registry'[j] = IF j < FirstIndex(registry, rop'.arg)
                                  THEN registry[j] ELSE registry[j + 1]
    /\ (rop'.op = "remove" /\ ~Contains(registry, rop'.arg))
          => /\ rop'.raised = "ValueError"
             /\ registry' = registry

\* C37: on the facade NotificationEventManager, notify calls update on every
\* entry of the observer list, once per entry and in list order; remove deletes
\* the first occurrence of the observer and nothing else; remove of an
\* observer that is not in the list raises and leaves the list as it was.
C37_RegistrySemantics == [][RegistryStep]_vars

====
